---- MODULE Spec2Model ----
(***************************************************************************)
(* Transactional payment engine of grey-backend-assessment: accounts,      *)
(* payments, double-entry ledger, idempotency cache, webhook intake and    *)
(* the webhook processor, over a relational store with row locks           *)
(* (SELECT ... FOR UPDATE), a version CAS and CHECK / UNIQUE constraints.  *)
(*                                                                         *)
(* Granularity.  A unit of work takes its account row locks one statement  *)
(* at a time (one action per GetForUpdate).  From the statement that takes *)
(* the last of them, the rest of the transaction (payment insert, ledger   *)
(* and event inserts, balance updates, commit or rollback) touches only    *)
(* rows it has locked or rows it appends, and never waits for a lock held  *)
(* by a unit of work that is itself waiting, so that tail is one action.   *)
(* Statements issued                                                       *)
(* outside a transaction (cache Get/Set, GetByID, GetPending, webhook      *)
(* UpdateStatus) are autocommit statements and are actions of their own.   *)
(***************************************************************************)
EXTENDS Integers, Sequences, FiniteSets, TLC

(***************************************************************************)
(* Bounds of the model.                                                    *)
(***************************************************************************)
MainRequests == 2       \* requests of the mixed workload
OverdraftRequests == 3  \* concurrent debits of the overdraft workload
IdemRequests == 3       \* requests of the shared-key workload
NEvents == 2            \* distinct provider event ids that may be delivered
MaxClock == 1           \* TTL periods that may elapse
UserSeedUSD == 10       \* opening balance of alice's USD wallet (provisioning data, scaled)
UserSeedOther == 7      \* opening balance of the other user wallets (scaled)
PoolSeed == 5           \* opening balance of each fx_pool account (scaled)
NProcs == 2             \* webhook processor instances of the scaled-out deployment
MaxVersion == 3         \* highest account version a direct UpdateBalance call may write
FinalityRequests == 3   \* requests of the pool workload
MaxSmallAmount == 12    \* largest of the consecutive amounts converted directly

Largest(S) == CHOOSE n \in S : \A m \in S : m <= n
Slots == 1..Largest({MainRequests, OverdraftRequests, IdemRequests, FinalityRequests})
EventIds == 1..NEvents

(***************************************************************************)
(* Program constants.                                                      *)
(***************************************************************************)
TxLimitUSD == 10000000       \* TX_LIMIT_USD default
TxLimitEUR == 9000000        \* TX_LIMIT_EUR default
TxLimitGBP == 8000000        \* TX_LIMIT_GBP default
BatchSize == 10              \* p.webhooks.GetPending(ctx, 10)
SpreadMilli == 5             \* FX_SPREAD_PCT 0.005, in thousandths
idempotencyTTL == 1           \* 24 * time.Hour, in TTL periods of the clock
None == 0                    \* NULL id / no row

SystemUser == "system"
Users == {"alice", "bob"}

(***************************************************************************)
(* accounts table: the static columns.  Account ids are listed in the      *)
(* lexicographic order of their id strings (seed migration), so the        *)
(* integer order of the ids below is the order uuid.String() < gives.      *)
(***************************************************************************)
AccountInfo ==
  << [user |-> SystemUser, currency |-> "USD", account_type |-> "fx_pool",  status |-> "active"],
     [user |-> SystemUser, currency |-> "EUR", account_type |-> "fx_pool",  status |-> "active"],
     [user |-> SystemUser, currency |-> "USD", account_type |-> "outgoing", status |-> "active"],
     [user |-> SystemUser, currency |-> "EUR", account_type |-> "outgoing", status |-> "active"],
     [user |-> "alice",    currency |-> "USD", account_type |-> "user",     status |-> "active"],
     [user |-> "alice",    currency |-> "EUR", account_type |-> "user",     status |-> "active"],
     [user |-> "bob",      currency |-> "USD", account_type |-> "user",     status |-> "active"] >>

AccountIds == 1..Len(AccountInfo)

SeedBalance(id) ==
  CASE AccountInfo[id].account_type = "fx_pool"  -> PoolSeed
    [] AccountInfo[id].account_type = "outgoing" -> 0
    [] id = 5 -> UserSeedUSD
    [] OTHER -> UserSeedOther

\* AccountRepository.GetByUserAndCurrency: the id of the row, or None.
GetByUserAndCurrency(u, c, t) ==
  LET S == {id \in AccountIds : /\ AccountInfo[id].user = u
                                /\ AccountInfo[id].currency = c
                                /\ AccountInfo[id].account_type = t}
  IN IF S = {} THEN None ELSE CHOOSE id \in S : TRUE

getSystemAccount(t, c) == GetByUserAndCurrency(SystemUser, c, t)

\* UserRepository.GetByUniqueName
GetByUniqueName(name) == IF name \in Users THEN name ELSE ""

(***************************************************************************)
(* FX calculator.  Rates are decimals with three fractional digits; the    *)
(* arithmetic is exact and rounded once, half away from zero.              *)
(***************************************************************************)
MidMilli(from, to) ==
  CASE from = "USD" /\ to = "EUR" -> 920
    [] from = "EUR" /\ to = "USD" -> 1087
    [] from = "USD" /\ to = "GBP" -> 790
    [] from = "GBP" /\ to = "USD" -> 1266
    [] from = "EUR" /\ to = "GBP" -> 858
    [] from = "GBP" /\ to = "EUR" -> 1166
    [] OTHER -> 0

RoundDiv(num, den) == (2 * num + den) \div (2 * den)

RECURSIVE GCD(_, _)
GCD(a, b) == IF b = 0 THEN a ELSE GCD(b, a % b)

\* amount times the decimal rateNum / rateDen, rounded once; the fraction is
\* reduced first, which leaves the exact product unchanged.
MulRound(amount, rateNum, rateDen) ==
  RoundDiv(amount * (rateNum \div GCD(rateNum, rateDen)), rateDen \div GCD(rateNum, rateDen))

MulTruncate(amount, rateNum, rateDen) ==
  (amount * (rateNum \div GCD(rateNum, rateDen))) \div (rateDen \div GCD(rateNum, rateDen))

Max(a, b) == IF a >= b THEN a ELSE b

ConvertTruncating(amount, from, to) ==
  IF from = to THEN [DestAmount |-> amount, FeeAmount |-> 0]
  ELSE LET destRaw == MulTruncate(amount, MidMilli(from, to) * (1000 - SpreadMilli), 1000000)
           dest    == Max(destRaw, 1)
           midRounded == MulRound(amount, MidMilli(from, to), 1000)
       IN [DestAmount |-> dest, FeeAmount |-> Max(midRounded - dest, 0)]

\* RateService.Convert for amount > 0
Convert(amount, from, to) ==
  IF from = to THEN [DestAmount |-> amount, FeeAmount |-> 0]
  ELSE LET destRaw == MulRound(amount, MidMilli(from, to) * (1000 - SpreadMilli), 1000000)
           dest    == Max(destRaw, 1)
           midRounded == MulRound(amount, MidMilli(from, to), 1000)
       IN [DestAmount |-> dest, FeeAmount |-> Max(midRounded - dest, 0)]

\* Currency.IsValid
IsValidCurrency(c) == c \in {"USD", "EUR", "GBP"}

\* RateService.GetRate: the error, "" when the pair is quoted.
GetRate(from, to) ==
  IF ~IsValidCurrency(from) \/ ~IsValidCurrency(to) THEN "INVALID_CURRENCY"
  ELSE IF from = to THEN ""
  ELSE IF MidMilli(from, to) = 0 THEN "INVALID_CURRENCY"
  ELSE ""

NoConversion == [DestAmount |-> 0, FeeAmount |-> 0]

\* RateService.Convert with its error returns: [err, conv].
ConvertOrError(amount, from, to) ==
  IF amount <= 0 THEN [err |-> "INVALID_AMOUNT", conv |-> NoConversion]
  ELSE IF GetRate(from, to) # "" THEN [err |-> GetRate(from, to), conv |-> NoConversion]
  ELSE [err |-> "", conv |-> Convert(amount, from, to)]

txLimitForCurrencyUSD(c) == TxLimitUSD

txLimitForCurrency(c) ==
  CASE c = "USD" -> TxLimitUSD
    [] c = "EUR" -> TxLimitEUR
    [] c = "GBP" -> TxLimitGBP
    [] OTHER -> 0

(***************************************************************************)
(* lockAccountsInOrder: the ids sorted by id string (insertion sort).      *)
(***************************************************************************)
RECURSIVE Insert(_, _)
Insert(x, s) ==
  IF s = <<>> THEN <<x>>
  ELSE IF x < Head(s) THEN <<x>> \o s
  ELSE <<Head(s)>> \o Insert(x, Tail(s))

RECURSIVE SortIds(_)
SortIds(ids) == IF ids = <<>> THEN <<>> ELSE Insert(Head(ids), SortIds(Tail(ids)))

UnsortedIds(ids) == ids

lockAccountsInOrder(ids) == SortIds(ids)


(***************************************************************************)
(* Requests.  A body is the decoded JSON of POST /api/v1/payments          *)
(* (kind "internal") or POST /api/v1/payments/external (kind "external").  *)
(***************************************************************************)
Body(kind, to, src, dst, amount) ==
  [kind |-> kind, to |-> to, src |-> src, dst |-> dst, amount |-> amount]

NoBody == Body("", "", "", "", 0)

PathOf(body) ==
  IF body.kind = "external" THEN "/api/v1/payments/external" ELSE "/api/v1/payments"

\* computeHash: SHA-256 over method, path and body bytes (no user, no key);
\* distinct inputs give distinct digests.
computeHashNoBody(method, path, body) == <<method, path>>

computeHash(method, path, body) == <<method, path, body>>

\* A response: HTTP status, error code ("" on success), and the payment DTO
\* (id and status) of a success body.
Resp(status, code, pid, pstatus) ==
  [status |-> status, code |-> code, payment |-> pid, payment_status |-> pstatus]

\* RespondAppError
ErrorResp(status, code) == Resp(status, code, None, "")

NoResp == Resp(0, "", None, "")

\* RespondDomainError / AppError table: code and HTTP status of an error.
AppError(err) ==
  CASE err = "INSUFFICIENT_FUNDS"   -> ErrorResp(422, "INSUFFICIENT_FUNDS")
    [] err = "DUPLICATE_PAYMENT"    -> ErrorResp(409, "DUPLICATE_PAYMENT")
    [] err = "SELF_TRANSFER"        -> ErrorResp(422, "SELF_TRANSFER_NOT_ALLOWED")
    [] err = "LIMIT_EXCEEDED"       -> ErrorResp(422, "TRANSACTION_LIMIT_EXCEEDED")
    [] err = "RECIPIENT_NOT_FOUND"  -> ErrorResp(422, "RECIPIENT_NOT_FOUND")
    [] err = "ACCOUNT_NOT_FOUND"    -> ErrorResp(422, "ACCOUNT_NOT_FOUND")
    [] err = "ACCOUNT_FROZEN"       -> ErrorResp(422, "ACCOUNT_FROZEN")
    [] err = "ACCOUNT_CLOSED"       -> ErrorResp(422, "ACCOUNT_CLOSED")
    [] err = "VERSION_CONFLICT"     -> ErrorResp(409, "VERSION_CONFLICT")
    [] err = "INVALID_AMOUNT"       -> ErrorResp(400, "INVALID_AMOUNT")
    [] err = "VALIDATION_FAILED"    -> ErrorResp(400, "VALIDATION_FAILED")
    [] err = "IDEMPOTENCY_CONFLICT" -> ErrorResp(409, "IDEMPOTENCY_CONFLICT")
    [] err = "NOT_FOUND"            -> ErrorResp(404, "RESOURCE_NOT_FOUND")
    [] OTHER                        -> ErrorResp(500, "INTERNAL_ERROR")

(***************************************************************************)
(* State.                                                                  *)
(***************************************************************************)
VARIABLES
  accounts,           \* accounts table: id -> [balance, version]
  locks,              \* row locks on accounts: id -> holder or None
  payments,           \* payments table, in insertion order; id = index
  ledger,             \* ledger_entries table, append-only
  payment_events,     \* payment_events table, append-only
  webhook_events,     \* webhook_events table, in created_at order; id = index
  idempotency_cache,  \* idempotency_cache table (set of rows)
  req,                \* request handlers: slot -> local state
  proc,               \* webhook processor instances: local state
  clock,              \* now(), in TTL periods
  hook,               \* answer to the latest provider webhook POST
  call,               \* latest direct call of a repository or service function
  cfg                 \* deployment and workload (fixed during a run)

vars == <<accounts, locks, payments, ledger, payment_events, webhook_events,
          idempotency_cache, req, proc, clock, hook, call, cfg>>

dbvars == <<accounts, payments, ledger, payment_events, webhook_events,
            idempotency_cache>>

\* Processor instances that can be deployed; one runs unless a deployment
\* starts more.
Procs == 1..NProcs
MainProcs == {1}

NoHolder == <<"none", 0>>
ReqHolder(r) == <<"req", r>>
ProcHolder(i) == <<"proc", i>>

\* Rows read by GetForUpdate so far (NoRow where none was read).
NoRow == [balance |-> 0, version |-> 0]
NoLocked == [id \in AccountIds |-> NoRow]

\* choice is the request's place in the workload, epoch the clock when it
\* arrived.
IdleReq ==
  [pc |-> "idle", user |-> "", key |-> "", body |-> NoBody, ids |-> <<>>,
   locked |-> NoLocked, sender |-> None, dest |-> None, conv |-> Convert(0, "", ""),
   resp |-> NoResp, replayed |-> FALSE, executed |-> FALSE, stored |-> FALSE,
   choice |-> 0, epoch |-> 0, submit |-> "none"]

\* RespondSuccess(w, 200, {status}) to the POST carrying event_id
HookResp(eid, code, status) == [event_id |-> eid, code |-> code, status |-> status]

NoHook == HookResp(None, 0, "")

NoCall == [fn |-> ""]

IdleProc ==
  [pc |-> "idle", batch |-> <<>>, payment |-> None, ids |-> <<>>, locked |-> NoLocked,
   cancelled |-> FALSE, aborted |-> FALSE, late |-> FALSE]

InitDB ==
  /\ accounts = [id \in AccountIds |-> [balance |-> SeedBalance(id), version |-> 0]]
  /\ locks = [id \in AccountIds |-> NoHolder]
  /\ payments = <<>>
  /\ ledger = <<>>
  /\ payment_events = <<>>
  /\ webhook_events = <<>>
  /\ idempotency_cache = {}
  /\ req = [r \in Slots |-> IdleReq]
  /\ proc = [i \in Procs |-> IdleProc]
  /\ clock = 0
  /\ hook = NoHook
  /\ call = NoCall

(***************************************************************************)
(* Store primitives.                                                       *)
(***************************************************************************)
\* CONSTRAINT chk_accounts_balance CHECK (balance >= 0)
NoBalanceCheck(balance) == TRUE

chk_accounts_balance(balance) == balance >= 0

UpdateBalanceNoCas(accts, id, newBalance, newVersion) ==
  IF ~chk_accounts_balance(newBalance)
  THEN [err |-> "CHECK_VIOLATION", accts |-> accts]
  ELSE [err |-> "", accts |-> [accts EXCEPT ![id] = [balance |-> newBalance, version |-> newVersion]]]

\* UPDATE accounts SET balance, version WHERE id AND version = newVersion - 1
UpdateBalance(accts, id, newBalance, newVersion) ==
  IF accts[id].version # newVersion - 1
  THEN [err |-> "VERSION_CONFLICT", accts |-> accts]
  ELSE IF ~chk_accounts_balance(newBalance)
  THEN [err |-> "CHECK_VIOLATION", accts |-> accts]
  ELSE [err |-> "", accts |-> [accts EXCEPT ![id] = [balance |-> newBalance, version |-> newVersion]]]

RollbackNever(err, before, written) == written

\* defer tx.Rollback(): a table as the transaction leaves it, as it was
\* before when an error ended the transaction ahead of Commit, with the
\* transaction's writes otherwise.
Rollback(err, before, written) == IF err # "" THEN before ELSE written

\* SELECT ... FOR UPDATE waits while another transaction holds the row.
GetForUpdateNoLock(id, holder) == TRUE

GetForUpdateReady(id, holder) == locks[id] = NoHolder \/ locks[id] = holder

\* Commit or rollback releases every row lock of the transaction.
Release(holder) == [id \in AccountIds |-> IF locks[id] = holder THEN NoHolder ELSE locks[id]]

\* PaymentRepository.GetByIdempotencyKey: payment id or None
GetByIdempotencyKey(key) ==
  LET S == {p \in 1..Len(payments) : payments[p].idempotency_key = key}
  IN IF S = {} THEN None ELSE CHOOSE p \in S : TRUE

\* idx_payments_idempotency_key: UNIQUE (idempotency_key), over all users
PaymentKeyFreeAlways(key, sender) == TRUE

PaymentKeyFree(key, sender) == GetByIdempotencyKey(key) = None

\* IdempotencyRepository.Get: row for (key, user) with expires_at > now()
CacheRows(key, user) ==
  {e \in idempotency_cache : e.key = key /\ e.user = user /\ e.expires_at > clock}

CacheHit(key, user) == CacheRows(key, user) # {}

CacheGet(key, user) == CHOOSE e \in CacheRows(key, user) : TRUE

\* IdempotencyRepository.Set: INSERT ... ON CONFLICT (idempotency_key, user_id) DO NOTHING
CacheSet(cache, entry) ==
  IF \E e \in cache : e.key = entry.key /\ e.user = entry.user
  THEN cache ELSE cache \cup {entry}


(***************************************************************************)
(* Payment rows, ledger legs.                                              *)
(***************************************************************************)
Payment(key, type, status, src, dst, amount, srcCur, destAmount, dstCur, fee, completed) ==
  [idempotency_key |-> key, type |-> type, status |-> status,
   source_account |-> src, dest_account |-> dst,
   source_amount |-> amount, source_currency |-> srcCur,
   dest_amount |-> destAmount, dest_currency |-> dstCur, fee_amount |-> fee,
   provider_ref |-> None, failure_reason |-> "", completed_at |-> completed]

Leg(account, entry_type, amount, currency) ==
  [account |-> account, entry_type |-> entry_type, amount |-> amount, currency |-> currency]

NewBalAdds(e, snap) == snap[e.account].balance + e.amount

NewBal(e, snap) ==
  IF e.entry_type = "debit" THEN snap[e.account].balance - e.amount
  ELSE snap[e.account].balance + e.amount

LedgerEntryFromOpening(pid, e, snap) ==
  [payment |-> pid, account |-> e.account, entry_type |-> e.entry_type,
   amount |-> e.amount, currency |-> e.currency,
   balance_before |-> SeedBalance(e.account),
   balance_after |-> IF e.entry_type = "debit" THEN SeedBalance(e.account) - e.amount
                     ELSE SeedBalance(e.account) + e.amount]

LedgerEntry(pid, e, snap) ==
  [payment |-> pid, account |-> e.account, entry_type |-> e.entry_type,
   amount |-> e.amount, currency |-> e.currency,
   balance_before |-> snap[e.account].balance, balance_after |-> NewBal(e, snap)]

LedgerRows(pid, legs, snap) == [i \in 1..Len(legs) |-> LedgerEntry(pid, legs[i], snap)]

\* writeLedgerEntries (same-currency internal transfer)
writeLedgerEntries(p, sender, recipient) ==
  << Leg(sender, "debit", p.source_amount, p.source_currency),
     Leg(recipient, "credit", p.dest_amount, p.dest_currency) >>

\* writeCrossCurrencyLedgerEntries (cross-currency internal transfer)
writeCrossCurrencyLedgerEntriesSrcAmount(p, sender, fxPoolSource, fxPoolDest, recipient) ==
  << Leg(sender, "debit", p.source_amount, p.source_currency),
     Leg(fxPoolSource, "credit", p.source_amount, p.source_currency),
     Leg(fxPoolDest, "debit", p.dest_amount, p.dest_currency),
     Leg(recipient, "credit", p.source_amount, p.dest_currency) >>

writeCrossCurrencyLedgerEntries(p, sender, fxPoolSource, fxPoolDest, recipient) ==
  << Leg(sender, "debit", p.source_amount, p.source_currency),
     Leg(fxPoolSource, "credit", p.source_amount, p.source_currency),
     Leg(fxPoolDest, "debit", p.dest_amount, p.dest_currency),
     Leg(recipient, "credit", p.dest_amount, p.dest_currency) >>

writeExternalLedgerEntriesDebitOnly(p, sender, outgoing) ==
  << Leg(sender, "debit", p.source_amount, p.source_currency) >>

\* writeExternalLedgerEntries (same-currency external payout)
writeExternalLedgerEntries(p, sender, outgoing) ==
  << Leg(sender, "debit", p.source_amount, p.source_currency),
     Leg(outgoing, "credit", p.dest_amount, p.dest_currency) >>

\* writeCrossCurrencyExternalLedgerEntries
writeCrossCurrencyExternalLedgerEntries(p, sender, fxPoolSource, fxPoolDest, outgoing) ==
  << Leg(sender, "debit", p.source_amount, p.source_currency),
     Leg(fxPoolSource, "credit", p.source_amount, p.source_currency),
     Leg(fxPoolDest, "debit", p.dest_amount, p.dest_currency),
     Leg(outgoing, "credit", p.dest_amount, p.dest_currency) >>

\* The UpdateBalance calls of the two-account executors, in call order:
\* sender.Balance - req.Amount, counterpart.Balance + req.Amount.
sameCurrencyBalanceUpdatesCreditOnly(amount, cur, sender, counterpart) ==
  << Leg(counterpart, "credit", amount, cur) >>

sameCurrencyBalanceUpdates(amount, cur, sender, counterpart) ==
  << Leg(sender, "debit", amount, cur), Leg(counterpart, "credit", amount, cur) >>

\* The UpdateBalance calls of the four-account executors, in call order.
crossCurrencyBalanceUpdatesLost(amount, destAmount, src, dst, sender, fxSrc, fxDst, last) ==
  << Leg(sender, "debit", amount, src), Leg(fxSrc, "credit", amount, src),
     Leg(fxDst, "debit", destAmount, dst), Leg(last, "credit", amount, dst) >>

crossCurrencyBalanceUpdates(amount, destAmount, src, dst, sender, fxSrc, fxDst, last) ==
  << Leg(sender, "debit", amount, src), Leg(fxSrc, "credit", amount, src),
     Leg(fxDst, "debit", destAmount, dst), Leg(last, "credit", destAmount, dst) >>

\* A run of UpdateBalance calls; the first error aborts the unit of work.
RECURSIVE ApplyUpdates(_, _, _)
ApplyUpdates(accts, legs, snap) ==
  IF legs = <<>> THEN [err |-> "", accts |-> accts]
  ELSE LET e == Head(legs)
           r == UpdateBalance(accts, e.account, NewBal(e, snap), snap[e.account].version + 1)
       IN IF r.err # "" THEN r ELSE ApplyUpdates(r.accts, Tail(legs), snap)

verifyAccountActive(id) ==
  IF AccountInfo[id].status = "frozen" THEN "ACCOUNT_FROZEN"
  ELSE IF AccountInfo[id].status # "active" THEN "ACCOUNT_CLOSED" ELSE ""


(***************************************************************************)
(* Transfer executor: resolution and validation (before the transaction).  *)
(***************************************************************************)
\* createPaymentRequest.Validate / createExternalPayoutRequest.Validate
HandlerValidate(body) ==
  IF \/ body.kind = "internal" /\ body.to = ""
     \/ ~IsValidCurrency(body.src) \/ ~IsValidCurrency(body.dst)
     \/ body.amount <= 0
  THEN "VALIDATION_FAILED" ELSE ""

\* sender and recipient are account rows.
validateTransferSameUser(body, sender, recipient) ==
  IF body.amount <= 0 THEN "INVALID_AMOUNT"
  ELSE IF sender.user = recipient.user THEN "SELF_TRANSFER"
  ELSE IF sender.status = "frozen" THEN "ACCOUNT_FROZEN"
  ELSE IF sender.status # "active" THEN "ACCOUNT_CLOSED"
  ELSE IF recipient.status = "frozen" THEN "ACCOUNT_FROZEN"
  ELSE IF recipient.status # "active" THEN "ACCOUNT_CLOSED"
  ELSE IF body.amount > txLimitForCurrency(body.src) THEN "LIMIT_EXCEEDED"
  ELSE ""

validateTransfer(body, sender, recipient) ==
  IF body.amount <= 0 THEN "INVALID_AMOUNT"
  ELSE IF sender.user = recipient.user /\ body.src = body.dst THEN "SELF_TRANSFER"
  ELSE IF sender.status = "frozen" THEN "ACCOUNT_FROZEN"
  ELSE IF sender.status # "active" THEN "ACCOUNT_CLOSED"
  ELSE IF recipient.status = "frozen" THEN "ACCOUNT_FROZEN"
  ELSE IF recipient.status # "active" THEN "ACCOUNT_CLOSED"
  ELSE IF body.amount > txLimitForCurrency(body.src) THEN "LIMIT_EXCEEDED"
  ELSE ""

\* The destination IBAN and bank name are taken as present.
validateExternalPayout(body, sender) ==
  IF body.amount <= 0 THEN "INVALID_AMOUNT"
  ELSE IF sender.status = "frozen" THEN "ACCOUNT_FROZEN"
  ELSE IF sender.status # "active" THEN "ACCOUNT_CLOSED"
  ELSE IF body.amount > txLimitForCurrency(body.src) THEN "LIMIT_EXCEEDED"
  ELSE ""

\* checkExternalPayoutIdempotency: [err, pid]; pid = None when no payment has the key
checkExternalPayoutIdempotency(key, body, senderAcct) ==
  LET existing == GetByIdempotencyKey(key)
  IN IF existing = None THEN [err |-> "", pid |-> None]
     ELSE IF /\ payments[existing].source_account = senderAcct
             /\ payments[existing].source_amount = body.amount
             /\ payments[existing].source_currency = body.src
             /\ payments[existing].dest_currency = body.dst
             /\ payments[existing].type = "external_payout"
     THEN [err |-> "", pid |-> existing]
     ELSE [err |-> "DUPLICATE_PAYMENT", pid |-> None]

Plan(err, pid, sender, dest, ids, conv) ==
  [err |-> err, pid |-> pid, sender |-> sender, dest |-> dest, ids |-> ids, conv |-> conv]

\* The account ids handed to lockAccountsInOrder, in argument order.
LockArgsSenderOnly(body, sender, last) == <<sender>>

LockArgs(body, sender, last) ==
  IF body.src # body.dst
  THEN <<sender, getSystemAccount("fx_pool", body.src), getSystemAccount("fx_pool", body.dst), last>>
  ELSE <<sender, last>>

\* CreateInternalTransfer up to BeginTx: resolveTransferAccounts, validateTransfer
PlanInternalTransfer(user, body) ==
  LET recipient     == GetByUniqueName(body.to)
      recipientAcct == GetByUserAndCurrency(recipient, body.dst, "user")
      senderAcct    == GetByUserAndCurrency(user, body.src, "user")
      conv          == Convert(body.amount, body.src, body.dst)
      fail(e)       == Plan(e, None, None, None, <<>>, conv)
  IN IF recipient = "" THEN fail("RECIPIENT_NOT_FOUND")
     ELSE IF recipientAcct = None THEN fail("ACCOUNT_NOT_FOUND")
     ELSE IF senderAcct = None THEN fail("ACCOUNT_NOT_FOUND")
     ELSE IF validateTransfer(body, AccountInfo[senderAcct], AccountInfo[recipientAcct]) # ""
     THEN fail(validateTransfer(body, AccountInfo[senderAcct], AccountInfo[recipientAcct]))
     ELSE Plan("", None, senderAcct, recipientAcct,
               lockAccountsInOrder(LockArgs(body, senderAcct, recipientAcct)), conv)

\* CreateExternalPayout up to BeginTx
PlanExternalPayout(user, key, body) ==
  LET senderAcct == GetByUserAndCurrency(user, body.src, "user")
      conv       == Convert(body.amount, body.src, body.dst)
      outgoing   == getSystemAccount("outgoing", body.dst)
      fail(e)    == Plan(e, None, None, None, <<>>, conv)
  IN IF senderAcct = None THEN fail("ACCOUNT_NOT_FOUND")
     ELSE LET idem == checkExternalPayoutIdempotency(key, body, senderAcct)
          IN IF idem.err # "" THEN fail(idem.err)
             ELSE IF idem.pid # None THEN Plan("", idem.pid, senderAcct, None, <<>>, conv)
             ELSE IF validateExternalPayout(body, AccountInfo[senderAcct]) # ""
             THEN fail(validateExternalPayout(body, AccountInfo[senderAcct]))
             ELSE Plan("", None, senderAcct, outgoing,
                       lockAccountsInOrder(LockArgs(body, senderAcct, outgoing)), conv)

SuccessStatus(body) == IF body.kind = "external" THEN 202 ELSE 201

(***************************************************************************)
(* Transfer executor: the transaction once every row lock is held.         *)
(***************************************************************************)
\* The payment row the executor builds.
BuildPayment(q) ==
  IF q.body.kind = "external"
  THEN Payment(q.key, "external_payout", "pending", q.sender, None,
               q.body.amount, q.body.src, q.conv.DestAmount, q.body.dst, q.conv.FeeAmount, FALSE)
  ELSE Payment(q.key, "internal_transfer", "completed", q.sender, q.dest,
               q.body.amount, q.body.src, q.conv.DestAmount, q.body.dst, q.conv.FeeAmount, TRUE)

ExecLedgerLegs(q, p) ==
  LET fxSrc == getSystemAccount("fx_pool", q.body.src)
      fxDst == getSystemAccount("fx_pool", q.body.dst)
  IN CASE q.body.kind = "internal" /\ q.body.src = q.body.dst ->
            writeLedgerEntries(p, q.sender, q.dest)
       [] q.body.kind = "internal" /\ q.body.src # q.body.dst ->
            writeCrossCurrencyLedgerEntries(p, q.sender, fxSrc, fxDst, q.dest)
       [] q.body.kind = "external" /\ q.body.src = q.body.dst ->
            writeExternalLedgerEntries(p, q.sender, q.dest)
       [] OTHER ->
            writeCrossCurrencyExternalLedgerEntries(p, q.sender, fxSrc, fxDst, q.dest)

ExecBalanceUpdates(q) ==
  IF q.body.src = q.body.dst
  THEN sameCurrencyBalanceUpdates(q.body.amount, q.body.src, q.sender, q.dest)
  ELSE crossCurrencyBalanceUpdates(q.body.amount, q.conv.DestAmount, q.body.src, q.body.dst,
                                   q.sender, getSystemAccount("fx_pool", q.body.src),
                                   getSystemAccount("fx_pool", q.body.dst), q.dest)

\* The sender-balance test under lock.
SufficientFunds(balance, amount) == ~(balance < amount)

FxPoolSufficientAlways(balance, destAmount) == TRUE

\* The fx_pool[dest] test of the cross-currency executors, under lock.
FxPoolSufficient(balance, destAmount) == ~(balance < destAmount)

\* PaymentRepository.Create wraps the driver error as it is; no caller
\* sees domain.ErrDuplicateIdempotencyKey from it.
PaymentCreateError == "UNIQUE_VIOLATION"

\* Outcome of execute*Transfer / execute*ExternalPayout: the error (or ""),
\* and the tables as committed ("" only).
ExecuteTx(q) ==
  LET snap    == q.locked
      p       == BuildPayment(q)
      pid     == Len(payments) + 1
      fxDst   == getSystemAccount("fx_pool", q.body.dst)
      upd     == ApplyUpdates(accounts, ExecBalanceUpdates(q), snap)
      actor   == "user:" \o q.user
      evtype  == IF q.body.kind = "external" THEN "created" ELSE "completed"
      fail(e) == [err |-> e, pid |-> None, accts |-> accounts, pays |-> payments,
                  led |-> ledger, evs |-> payment_events]
  IN IF verifyAccountActive(q.sender) # "" THEN fail(verifyAccountActive(q.sender))
     ELSE IF q.body.kind = "internal" /\ verifyAccountActive(q.dest) # ""
     THEN fail(verifyAccountActive(q.dest))
     ELSE IF ~SufficientFunds(snap[q.sender].balance, q.body.amount) THEN fail("INSUFFICIENT_FUNDS")
     ELSE IF q.body.src # q.body.dst /\ ~FxPoolSufficient(snap[fxDst].balance, q.conv.DestAmount)
     THEN fail("INSUFFICIENT_FUNDS")
     ELSE IF ~PaymentKeyFree(q.key, q.sender) THEN fail(PaymentCreateError)
     ELSE IF upd.err # "" THEN fail(upd.err)
     ELSE [err |-> "", pid |-> pid, accts |-> upd.accts,
           pays |-> Append(payments, p),
           led |-> ledger \o LedgerRows(pid, ExecLedgerLegs(q, p), snap),
           evs |-> Append(payment_events, [payment |-> pid, event_type |-> evtype, actor |-> actor])]

\* Error returned by CreateInternalTransfer / CreateExternalPayout for an
\* executor error; pid is the payment returned instead, if any.
ServiceResult(q, err) ==
  IF err # "DUPLICATE_IDEMPOTENCY_KEY" THEN [err |-> err, pid |-> None]
  ELSE IF q.body.kind = "internal" THEN [err |-> "DUPLICATE_PAYMENT", pid |-> None]
  ELSE LET idem == checkExternalPayoutIdempotency(q.key, q.body, q.sender)
       IN IF idem.err # "" THEN idem
          ELSE IF idem.pid # None THEN idem
          ELSE [err |-> "DUPLICATE_PAYMENT", pid |-> None]


(***************************************************************************)
(* Request path: Idempotency middleware -> PaymentHandler -> Service.      *)
(***************************************************************************)
Done(r) == req[r].pc = "done"

\* The middleware up to the cache lookup: a cache hit answers at once
\* (conflict or replay); a miss passes the request to the handler.
Idempotency(r) ==
  /\ r \in cfg.slots
  /\ req[r].pc = "idle"
  /\ \A q \in cfg.slots : q < r => req[q].pc # "idle"
  /\ \E c \in 1..Len(cfg.menu) :
       /\ cfg.distinct => \A q \in cfg.slots :
                              req[q].choice < c /\ req[q].key # cfg.menu[c].key
       /\ LET m       == cfg.menu[c]
              reqHash == computeHash("POST", PathOf(m.body), m.body)
              arrived == [IdleReq EXCEPT !.user = m.user, !.key = m.key, !.body = m.body,
                                         !.choice = c, !.epoch = clock]
          IN req' = [req EXCEPT ![r] =
               IF CacheHit(m.key, m.user)
               THEN IF CacheGet(m.key, m.user).request_hash # reqHash
                    THEN [arrived EXCEPT !.pc = "done",
                                         !.resp = AppError("IDEMPOTENCY_CONFLICT")]
                    ELSE [arrived EXCEPT !.pc = "done",
                                         !.resp = CacheGet(m.key, m.user).response,
                                         !.replayed = TRUE]
               ELSE [arrived EXCEPT !.pc = "handler"]]
  /\ UNCHANGED <<dbvars, locks, proc, clock, hook, call, cfg>>

\* PaymentHandler.Create / CreateExternal and the service up to BeginTx.
Handler(r) ==
  /\ req[r].pc = "handler"
  /\ LET q    == req[r]
         plan == IF q.body.kind = "external"
                 THEN PlanExternalPayout(q.user, q.key, q.body)
                 ELSE PlanInternalTransfer(q.user, q.body)
         ran  == [q EXCEPT !.executed = TRUE]
     IN req' = [req EXCEPT ![r] =
          IF HandlerValidate(q.body) # ""
          THEN [ran EXCEPT !.pc = "cache", !.resp = AppError(HandlerValidate(q.body))]
          ELSE IF plan.err # ""
          THEN [ran EXCEPT !.pc = "cache", !.resp = AppError(plan.err)]
          ELSE IF plan.pid # None
          THEN [ran EXCEPT !.pc = "cache",
                           !.resp = Resp(SuccessStatus(q.body), "", plan.pid,
                                         payments[plan.pid].status)]
          ELSE [ran EXCEPT !.pc = "lock", !.ids = plan.ids, !.sender = plan.sender,
                           !.dest = plan.dest, !.conv = plan.conv]]
  /\ UNCHANGED <<dbvars, locks, proc, clock, hook, call, cfg>>

\* One GetForUpdate of lockAccountsInOrder, but the last.
LockNext(r) ==
  /\ req[r].pc = "lock"
  /\ Tail(req[r].ids) # <<>>
  /\ LET id == Head(req[r].ids)
     IN /\ GetForUpdateReady(id, ReqHolder(r))
        /\ locks' = [locks EXCEPT ![id] = ReqHolder(r)]
        /\ req' = [req EXCEPT ![r].locked[id] = accounts[id], ![r].ids = Tail(@)]
  /\ UNCHANGED <<dbvars, proc, clock, hook, call, cfg>>

\* What a call of the provider's /process endpoint can come to: 202, a
\* transport error, a timeout, or another status.
ProviderOutcomes ==
  IF cfg.provider = "flaky" THEN {"accepted", "error", "timeout", "rejected"}
  ELSE {"accepted"}

\* ProviderClient.SubmitPayment: the error it returns, "" for a 202.
SubmitPayment(outcome) ==
  IF outcome = "accepted" THEN ""
  ELSE IF outcome = "rejected" THEN "SubmitPayment: unexpected status"
  ELSE "SubmitPayment: send"

submitToProviderReturnsError(q, res, outcome) ==
  IF q.body.kind # "external" \/ res.err # "" THEN [submit |-> "none", err |-> ""]
  ELSE [submit |-> IF SubmitPayment(outcome) = "" THEN "accepted" ELSE "failed",
        err |-> IF SubmitPayment(outcome) = "" THEN "" ELSE "INTERNAL_ERROR"]

\* Service.submitToProvider, called by CreateExternalPayout once
\* executeExternalPayout has returned the committed payment: whether the
\* provider took the payout, and the error handed back to the caller (none:
\* a failure is logged).
submitToProvider(q, res, outcome) ==
  IF q.body.kind # "external" \/ res.err # "" THEN [submit |-> "none", err |-> ""]
  ELSE [submit |-> IF SubmitPayment(outcome) = "" THEN "accepted" ELSE "failed",
        err |-> ""]

\* The last GetForUpdate and the transaction after it, commit or rollback,
\* the submission of a committed payout, and the response.
Execute(r) ==
  /\ req[r].pc = "lock"
  /\ Tail(req[r].ids) = <<>>
  /\ GetForUpdateReady(Head(req[r].ids), ReqHolder(r))
  /\ \E q \in {[req[r] EXCEPT !.locked[Head(req[r].ids)] = accounts[Head(req[r].ids)]]} :
     \E res \in {ExecuteTx(q)} :
     \E sr \in {ServiceResult(q, res.err)} :
     \E outcome \in ProviderOutcomes :
     \E sub \in {submitToProvider(q, res, outcome)} :
        /\ accounts' = res.accts
        /\ payments' = res.pays
        /\ ledger' = res.led
        /\ payment_events' = res.evs
        /\ req' = [req EXCEPT ![r].pc = "cache",
                              ![r].ids = <<>>,
                              ![r].locked = NoLocked,
                              ![r].submit = sub.submit,
                              ![r].resp =
                                 IF sub.err # "" THEN AppError(sub.err)
                                 ELSE IF res.err = ""
                                 THEN Resp(SuccessStatus(q.body), "", res.pid, res.pays[res.pid].status)
                                 ELSE IF sr.err # "" THEN AppError(sr.err)
                                 ELSE Resp(SuccessStatus(q.body), "", sr.pid, payments[sr.pid].status)]
  /\ locks' = Release(ReqHolder(r))
  /\ UNCHANGED <<webhook_events, idempotency_cache, proc, clock, hook, call, cfg>>

\* The middleware after next.ServeHTTP: repo.Set of the recorded response.
CacheEntry(q) ==
  [key |-> q.key, user |-> q.user,
   request_hash |-> computeHash("POST", PathOf(q.body), q.body),
   response |-> q.resp, expires_at |-> clock + idempotencyTTL]

CacheStore(r) ==
  /\ req[r].pc = "cache"
  /\ idempotency_cache' = CacheSet(idempotency_cache, CacheEntry(req[r]))
  /\ req' = [req EXCEPT ![r].pc = "done",
                        ![r].stored = (CacheEntry(req[r]) \in idempotency_cache'
                                       /\ CacheEntry(req[r]) \notin idempotency_cache)]
  /\ UNCHANGED <<accounts, payments, ledger, payment_events, webhook_events,
                 locks, proc, clock, hook, call, cfg>>

\* A TTL period (24 hours) elapses; no request is in flight that long.
Tick ==
  /\ clock < MaxClock
  /\ \A r \in Slots : req[r].pc \in {"idle", "done"}
  /\ clock' = clock + 1
  /\ UNCHANGED <<dbvars, locks, req, proc, hook, call, cfg>>


(***************************************************************************)
(* Webhook intake.                                                         *)
(***************************************************************************)
WebhookEvent(eid, pid, status, ref) ==
  [idempotency_key |-> eid, payment |-> pid, payload_status |-> status,
   provider_ref |-> ref, status |-> "pending", attempts |-> 0]

\* The provider's reference for a payout it completed, one per report; a
\* failure report carries none.
ProviderRef(eid, status) == IF status = "completed" THEN eid ELSE None

isDuplicateKeyNever(eid) == FALSE

\* webhook_events.idempotency_key is UNIQUE
isDuplicateKey(eid) ==
  \E i \in 1..Len(webhook_events) : webhook_events[i].idempotency_key = eid

\* The signing secret the handler is configured with, and another one.
WebhookSecret == "whsec"
OtherSecret == "other-secret"

\* hex(HMAC-SHA256(secret, body)): distinct (body, secret) pairs give
\* distinct signatures.
HmacHex(body, secret) == <<body, secret>>

\* An absent X-Webhook-Signature header.
NoSignature == <<>>

verifyHMACAlways(body, signature, secret) == TRUE

verifyHMAC(body, signature, secret) ==
  IF signature = NoSignature THEN FALSE ELSE signature = HmacHex(body, secret)

\* A request body: a JSON payload, or bytes json.Unmarshal rejects.
WebhookBody(eid, pid, status) ==
  [event_id |-> eid, payment_id |-> pid, status |-> status, parses |-> TRUE]

Malformed == [event_id |-> None, payment_id |-> None, status |-> "", parses |-> FALSE]

\* The payouts the provider accepted: it reports on no others.
HandedToProvider == {req[r].resp.payment : r \in {x \in Slots : req[x].submit = "accepted"}}

WebhookBodies ==
  {WebhookBody(eid, pid, status) :
     eid \in {e \in EventIds : e <= Len(webhook_events) + 1},
     pid \in {p \in 1..Len(payments) : payments[p].type = "external_payout"
                                        /\ p \in HandedToProvider}
             \cup (IF cfg.faults THEN {Len(payments) + 1} ELSE {}),
     status \in {"completed", "failed"}}
  \cup {Malformed}

\* The bodies that can arrive next: any of the above, or, where the run
\* follows a script of provider reports, the report that is next in the
\* script, sent once the requests have been answered and the payments the
\* script names are payouts.
ProviderBodies ==
  IF cfg.script = <<>> THEN WebhookBodies
  ELSE IF /\ Len(webhook_events) < Len(cfg.script)
          /\ \A r \in cfg.slots : req[r].pc = "done"
          /\ \A k \in 1..Len(cfg.script) :
                /\ cfg.script[k].payment \in 1..Len(payments)
                /\ payments[cfg.script[k].payment].type = "external_payout"
       THEN {WebhookBody(Len(webhook_events) + 1,
                         cfg.script[Len(webhook_events) + 1].payment,
                         cfg.script[Len(webhook_events) + 1].status)}
       ELSE {}

Signatures(body) == {HmacHex(body, WebhookSecret), HmacHex(body, OtherSecret), NoSignature}

\* The provider reports on payouts it was handed, under a fresh event id
\* or, where it redelivers, a repeated one; a repeated id is answered
\* already_received.  Where forged requests arrive, a POST may carry no
\* signature, one made with another secret, or a body that is not JSON.
ReceiveProviderWebhook ==
  /\ cfg.procs # {}
  /\ \E body \in ProviderBodies : \E sig \in Signatures(body) :
       /\ cfg.forged \/ (body.parses /\ sig = HmacHex(body, WebhookSecret))
       /\ call' = [fn |-> "ReceiveProviderWebhook", body |-> body, sig |-> sig]
       /\ IF ~verifyHMAC(body, sig, WebhookSecret)
          THEN /\ hook' = HookResp(None, 401, "INVALID_SIGNATURE")
               /\ UNCHANGED webhook_events
          ELSE IF ~body.parses
          THEN /\ hook' = HookResp(None, 400, "INVALID_REQUEST")
               /\ UNCHANGED webhook_events
          ELSE IF isDuplicateKey(body.event_id)
          THEN /\ cfg.redeliver
               /\ hook' = HookResp(body.event_id, 200, "already_received")
               /\ UNCHANGED webhook_events
          ELSE /\ webhook_events' = Append(webhook_events,
                                           WebhookEvent(body.event_id, body.payment_id, body.status,
                                                        ProviderRef(body.event_id, body.status)))
               /\ hook' = HookResp(body.event_id, 200, "received")
  /\ UNCHANGED <<accounts, payments, ledger, payment_events, idempotency_cache,
                 locks, req, proc, clock, cfg>>

(***************************************************************************)
(* Webhook processor.                                                      *)
(***************************************************************************)
Min(a, b) == IF a <= b THEN a ELSE b

RECURSIVE PendingUpTo(_)
PendingUpTo(n) ==
  IF n = 0 THEN <<>>
  ELSE IF webhook_events[n].status = "pending" THEN Append(PendingUpTo(n - 1), n)
  ELSE PendingUpTo(n - 1)

\* WebhookEventRepository.GetPending: an autocommit SELECT ... ORDER BY
\* created_at LIMIT n FOR UPDATE SKIP LOCKED; its row locks end with the
\* statement.
GetPending(limit) ==
  LET all == PendingUpTo(Len(webhook_events))
  IN SubSeq(all, 1, Min(limit, Len(all)))

\* WebhookEventRepository.UpdateStatus
WebhookUpdateStatus(events, id, status) ==
  [events EXCEPT ![id].status = status, ![id].attempts = @ + 1]

\* PaymentRepository.UpdateStatus: SET status, failure_reason, completed_at WHERE id
PaymentUpdateStatus(pays, id, status, failureReason, completedAt) ==
  [pays EXCEPT ![id].status = status, ![id].failure_reason = failureReason,
               ![id].completed_at = completedAt]

PaymentSetProviderRefNever(pays, id, providerRef) == pays

\* The provider_ref argument of the UpdateStatus the processor calls: the
\* column is set when a reference is given and kept otherwise.
PaymentSetProviderRef(pays, id, providerRef) ==
  IF providerRef = None THEN pays ELSE [pays EXCEPT ![id].provider_ref = providerRef]

isTerminalStatusCompletedOnly(s) == s \in {"completed", "reversed"}

isTerminalStatus(s) == s \in {"completed", "failed", "reversed"}

PaymentEvent(pid, event_type, actor) == [payment |-> pid, event_type |-> event_type, actor |-> actor]

writeSameCurrencyReversal(pmt, outgoing) ==
  << Leg(outgoing, "debit", pmt.dest_amount, pmt.dest_currency),
     Leg(pmt.source_account, "credit", pmt.source_amount, pmt.source_currency) >>

writeCrossCurrencyReversalDestCredit(pmt, outgoing, fxPoolSource, fxPoolDest) ==
  << Leg(outgoing, "debit", pmt.dest_amount, pmt.dest_currency),
     Leg(fxPoolDest, "credit", pmt.dest_amount, pmt.dest_currency),
     Leg(fxPoolSource, "debit", pmt.source_amount, pmt.source_currency),
     Leg(pmt.source_account, "credit", pmt.dest_amount, pmt.source_currency) >>

writeCrossCurrencyReversal(pmt, outgoing, fxPoolSource, fxPoolDest) ==
  << Leg(outgoing, "debit", pmt.dest_amount, pmt.dest_currency),
     Leg(fxPoolDest, "credit", pmt.dest_amount, pmt.dest_currency),
     Leg(fxPoolSource, "debit", pmt.source_amount, pmt.source_currency),
     Leg(pmt.source_account, "credit", pmt.source_amount, pmt.source_currency) >>

ReversalEntries(pmt) ==
  IF pmt.source_currency # pmt.dest_currency
  THEN writeCrossCurrencyReversal(pmt, getSystemAccount("outgoing", pmt.dest_currency),
                                  getSystemAccount("fx_pool", pmt.source_currency),
                                  getSystemAccount("fx_pool", pmt.dest_currency))
  ELSE writeSameCurrencyReversal(pmt, getSystemAccount("outgoing", pmt.dest_currency))

\* accountIDs of handleFailed, in append order
ReversalAccounts(pmt) ==
  IF pmt.source_currency # pmt.dest_currency
  THEN << pmt.source_account, getSystemAccount("outgoing", pmt.dest_currency),
          getSystemAccount("fx_pool", pmt.source_currency),
          getSystemAccount("fx_pool", pmt.dest_currency) >>
  ELSE << pmt.source_account, getSystemAccount("outgoing", pmt.dest_currency) >>

\* The processor moves to the next event of its batch.
NextEvent(w) ==
  [w EXCEPT !.batch = Tail(@), !.pc = IF Tail(w.batch) = <<>> THEN "idle" ELSE "event",
            !.payment = None, !.ids = <<>>, !.locked = NoLocked]

poll(i) ==
  /\ i \in cfg.procs
  /\ proc[i].pc = "idle"
  /\ ~proc[i].cancelled
  /\ GetPending(BatchSize) # <<>>
  /\ proc' = [proc EXCEPT ![i].batch = GetPending(BatchSize), ![i].pc = "event"]
  /\ UNCHANGED <<dbvars, locks, req, clock, hook, call, cfg>>

\* The outcomes of a statement against the database: it runs, or, where
\* the run has storage faults, it fails with a connection error.
StorageErrors == IF cfg.faults THEN {"", "storage"} ELSE {""}

\* The error of PaymentRepository.GetByID: the storage error if the query
\* failed, NOT_FOUND if no row has the id, none otherwise.
GetByIDError(pid, dberr) ==
  IF dberr # "" THEN dberr
  ELSE IF pid \notin 1..Len(payments) THEN "NOT_FOUND" ELSE ""

\* processEvent up to the handler it dispatches to: GetByID, the terminal
\* check and the switch on the reported status.
processEvent(i) ==
  /\ proc[i].pc = "event"
  /\ ~proc[i].cancelled
  /\ \E dberr \in StorageErrors :
     LET e   == Head(proc[i].batch)
         pid == webhook_events[e].payment
     IN IF GetByIDError(pid, dberr) # ""
        THEN /\ webhook_events' = WebhookUpdateStatus(webhook_events, e, "failed")
             /\ proc' = [proc EXCEPT ![i] = NextEvent(@)]
             /\ UNCHANGED <<payments, payment_events>>
        ELSE IF isTerminalStatus(payments[pid].status)
        THEN /\ webhook_events' = WebhookUpdateStatus(webhook_events, e, "dispatched")
             /\ proc' = [proc EXCEPT ![i] = NextEvent(@)]
             /\ UNCHANGED <<payments, payment_events>>
        ELSE IF webhook_events[e].payload_status = "completed"
        THEN /\ proc' = [proc EXCEPT ![i].pc = "complete", ![i].payment = pid]
             /\ UNCHANGED <<payments, payment_events, webhook_events>>
        ELSE /\ proc' = [proc EXCEPT ![i].pc = "lock", ![i].payment = pid,
                                     ![i].ids = lockAccountsInOrder(ReversalAccounts(payments[pid]))]
             /\ UNCHANGED <<payments, payment_events, webhook_events>>
  /\ UNCHANGED <<accounts, ledger, idempotency_cache, locks, req, clock, hook, call, cfg>>

\* handleCompleted: one transaction that updates the payment by id and
\* appends the event; processEvent then marks the webhook event dispatched.
handleCompleted(i) ==
  /\ proc[i].pc = "complete"
  /\ ~proc[i].cancelled
  /\ \E dberr \in StorageErrors :
     LET e   == Head(proc[i].batch)
         pid == proc[i].payment
     IN IF dberr # ""
        THEN UNCHANGED <<payments, payment_events, webhook_events>>
        ELSE /\ payments' = PaymentSetProviderRef(
                              PaymentUpdateStatus(payments, pid, "completed", "", TRUE),
                              pid, webhook_events[e].provider_ref)
             /\ payment_events' = Append(payment_events,
                                         PaymentEvent(pid, "completed", "system"))
             /\ webhook_events' = WebhookUpdateStatus(webhook_events, e, "dispatched")
  /\ proc' = [proc EXCEPT ![i] = NextEvent(@)]
  /\ UNCHANGED <<accounts, ledger, idempotency_cache, locks, req, clock, hook, call, cfg>>

\* One GetForUpdate of handleFailed's lockAccountsInOrder, but the last.
handleFailedLock(i) ==
  /\ proc[i].pc = "lock"
  /\ ~proc[i].cancelled
  /\ Tail(proc[i].ids) # <<>>
  /\ LET id == Head(proc[i].ids)
     IN /\ GetForUpdateReady(id, ProcHolder(i))
        /\ locks' = [locks EXCEPT ![id] = ProcHolder(i)]
        /\ proc' = [proc EXCEPT ![i].locked[id] = accounts[id], ![i].ids = Tail(@)]
  /\ UNCHANGED <<dbvars, req, clock, hook, call, cfg>>

\* handleFailed from its last GetForUpdate: status update, reversal
\* entries, event, commit; on an error the transaction rolls back and
\* processEvent returns the error without touching the webhook event.
handleFailed(i) ==
  /\ proc[i].pc = "lock"
  /\ ~proc[i].cancelled
  /\ Tail(proc[i].ids) = <<>>
  /\ GetForUpdateReady(Head(proc[i].ids), ProcHolder(i))
  /\ \E snap \in {[proc[i].locked EXCEPT ![Head(proc[i].ids)] = accounts[Head(proc[i].ids)]]} :
     \E upd \in {ApplyUpdates(accounts, ReversalEntries(payments[proc[i].payment]), snap)} :
       LET e   == Head(proc[i].batch)
           pid == proc[i].payment
           pmt == payments[pid]
       IN /\ accounts' = Rollback(upd.err, accounts, upd.accts)
          /\ payments' = Rollback(upd.err, payments,
                                  PaymentUpdateStatus(payments, pid, "failed", "provider", FALSE))
          /\ ledger' = Rollback(upd.err, ledger,
                                ledger \o LedgerRows(pid, ReversalEntries(pmt), snap))
          /\ payment_events' = Rollback(upd.err, payment_events,
                                        Append(payment_events, PaymentEvent(pid, "failed", "system")))
          /\ webhook_events' = IF upd.err # "" THEN webhook_events
                               ELSE WebhookUpdateStatus(webhook_events, e, "dispatched")
  /\ proc' = [proc EXCEPT ![i] = NextEvent(@)]
  /\ locks' = Release(ProcHolder(i))
  /\ UNCHANGED <<idempotency_cache, req, clock, hook, call, cfg>>


(***************************************************************************)
(* Workloads and specifications.                                           *)
(***************************************************************************)
Request(user, key, body) == [user |-> user, key |-> key, body |-> body]

KeyNames == <<"k1", "k2", "k3", "k4", "k5", "k6">>

\* Mixed workload: every executor, both directions between two wallets,
\* distinct keys.
MainMenu ==
  << Request("alice", "k1", Body("external", "", "USD", "EUR", 6)),
     Request("alice", "k2", Body("internal", "bob", "EUR", "USD", 7)),
     Request("alice", "k3", Body("internal", "bob", "USD", "USD", 3)),
     Request("bob",   "k4", Body("internal", "alice", "USD", "USD", 3)),
     Request("alice", "k5", Body("external", "", "USD", "USD", 4)) >>

\* Overdraft workload: debits of one wallet, each within the balance, any
\* two beyond it, under distinct keys.
OverdraftAmount == (UserSeedUSD \div 2) + 2

OverdraftMenu ==
  [c \in 1..(2 * OverdraftRequests) |->
     Request("alice", KeyNames[(c + 1) \div 2],
             IF c % 2 = 1 THEN Body("internal", "bob", "USD", "USD", OverdraftAmount)
             ELSE Body("external", "", "USD", "USD", OverdraftAmount))]

\* Shared-key workload: the same key sent again with the same body, with
\* another body, and by another user.
IdemMenu ==
  << Request("alice", "k1", Body("internal", "bob", "USD", "USD", 1)),
     Request("alice", "k1", Body("internal", "bob", "USD", "USD", 2)),
     Request("bob",   "k1", Body("internal", "alice", "USD", "USD", 1)),
     Request("alice", "k2", Body("external", "", "USD", "USD", 1)) >>

\* Own-wallet workload: a user paying themselves within a currency and
\* across currencies, next to transfers between two users.
SelfMenu ==
  << Request("alice", "k1", Body("internal", "alice", "USD", "USD", 3)),
     Request("alice", "k2", Body("internal", "alice", "USD", "EUR", 3)),
     Request("alice", "k3", Body("internal", "bob", "USD", "USD", 3)),
     Request("bob",   "k4", Body("internal", "alice", "USD", "EUR", 2)) >>

\* Payout workload: two payouts of one wallet in one currency, the first no
\* larger than the second.
PayoutMenu ==
  << Request("alice", "k1", Body("external", "", "USD", "USD", 3)),
     Request("alice", "k2", Body("external", "", "USD", "USD", 4)) >>

\* Pool workload: a payout across currencies, a transfer that draws
\* fx_pool[source] below the payout's amount, and one that fills it again.
FinalityMenu ==
  << Request("alice", "k1", Body("external", "", "USD", "EUR", 6)),
     Request("alice", "k2", Body("internal", "bob", "EUR", "USD", 7)),
     Request("bob",   "k3", Body("internal", "alice", "USD", "EUR", 3)) >>

Init ==
  /\ InitDB
  /\ cfg = [slots |-> 1..MainRequests, procs |-> MainProcs, menu |-> MainMenu, distinct |-> TRUE,
            redeliver |-> FALSE, forged |-> FALSE,
            faults |-> FALSE, script |-> <<>>, provider |-> "up"]

InitSelf ==
  /\ InitDB
  /\ cfg = [slots |-> 1..MainRequests, procs |-> {}, menu |-> SelfMenu, distinct |-> TRUE,
            redeliver |-> FALSE, forged |-> FALSE,
            faults |-> FALSE, script |-> <<>>, provider |-> "up"]

InitOverdraft ==
  /\ InitDB
  /\ cfg = [slots |-> 1..OverdraftRequests, procs |-> {}, menu |-> OverdraftMenu,
            distinct |-> TRUE, redeliver |-> FALSE, forged |-> FALSE,
            faults |-> FALSE, script |-> <<>>, provider |-> "up"]

InitIdem ==
  /\ InitDB
  /\ cfg = [slots |-> 1..IdemRequests, procs |-> {}, menu |-> IdemMenu, distinct |-> FALSE,
            redeliver |-> FALSE, forged |-> FALSE,
            faults |-> FALSE, script |-> <<>>, provider |-> "up"]

\* Scaled-out deployment: every processor instance runs and the provider
\* redelivers its reports.
InitProcs ==
  /\ InitDB
  /\ cfg = [slots |-> 1..MainRequests, procs |-> Procs, menu |-> MainMenu, distinct |-> TRUE,
            redeliver |-> TRUE, forged |-> FALSE,
            faults |-> FALSE, script |-> <<>>, provider |-> "up"]

\* The webhook endpoint is reachable by anyone: unsigned, wrongly signed
\* and malformed POSTs arrive next to the provider's.
InitIntake ==
  /\ InitDB
  /\ cfg = [slots |-> 1..MainRequests, procs |-> MainProcs, menu |-> MainMenu, distinct |-> TRUE,
            redeliver |-> FALSE, forged |-> TRUE,
            faults |-> FALSE, script |-> <<>>, provider |-> "up"]

\* Scaled-out deployment handling the payout workload.
InitRace ==
  /\ InitDB
  /\ cfg = [slots |-> 1..MainRequests, procs |-> Procs, menu |-> PayoutMenu, distinct |-> TRUE,
            redeliver |-> FALSE, forged |-> FALSE,
            faults |-> FALSE, script |-> <<>>, provider |-> "up"]

\* One processor instance handling the payout workload.
InitRaceOne ==
  /\ InitDB
  /\ cfg = [slots |-> 1..MainRequests, procs |-> MainProcs, menu |-> PayoutMenu, distinct |-> TRUE,
            redeliver |-> FALSE, forged |-> FALSE,
            faults |-> FALSE, script |-> <<>>, provider |-> "up"]

\* Scaled-out deployment handling a payout across currencies while transfers
\* draw fx_pool[source] down and fill it again.
InitFinality ==
  /\ InitDB
  /\ cfg = [slots |-> 1..FinalityRequests, procs |-> Procs, menu |-> FinalityMenu, distinct |-> TRUE,
            redeliver |-> FALSE, forged |-> FALSE,
            faults |-> FALSE, script |-> <<>>, provider |-> "up"]

NextRequests ==
  \E r \in Slots : \/ Idempotency(r)
                   \/ Handler(r)
                   \/ LockNext(r)
                   \/ Execute(r)
                   \/ CacheStore(r)

NextTimed == NextRequests \/ Tick

\* The mixed workload sends every key once: no lookup can hit, whatever the
\* clock, and its next-state relation leaves the clock alone.
Next ==
  \/ NextRequests
  \/ ReceiveProviderWebhook
  \/ \E i \in Procs : \/ poll(i)
                      \/ processEvent(i)
                      \/ handleCompleted(i)
                      \/ handleFailedLock(i)
                      \/ handleFailed(i)

Spec == Init /\ [][Next]_vars

\* One processor instance handling the payout workload while statements
\* against the database can fail and the provider also reports on payments
\* that do not exist.
InitFaults ==
  /\ InitDB
  /\ cfg = [slots |-> 1..MainRequests, procs |-> MainProcs, menu |-> PayoutMenu, distinct |-> TRUE,
            redeliver |-> FALSE, forged |-> FALSE,
            faults |-> TRUE, script |-> <<>>, provider |-> "up"]

SpecFaults == InitFaults /\ [][Next]_vars

\* The context handed to Start is cancelled: the shutdown signal.
Shutdown(i) ==
  /\ i \in cfg.procs
  /\ ~proc[i].cancelled
  /\ proc' = [proc EXCEPT ![i].cancelled = TRUE]
  /\ UNCHANGED <<dbvars, locks, req, clock, hook, call, cfg>>

\* The rest of an iteration whose context was cancelled under it (aborted
\* records the errors it logs): poll
\* hands the same context to every statement, so the statement in flight
\* and all that follow return context.Canceled, an open transaction is
\* rolled back with its row locks, and processEvent returns an error for
\* the event in flight and for every event left in the batch.
pollCancelled(i) ==
  /\ proc[i].cancelled
  /\ proc[i].pc \in {"event", "complete", "lock"}
  /\ proc' = [proc EXCEPT ![i] = [IdleProc EXCEPT !.cancelled = TRUE, !.aborted = TRUE]]
  /\ locks' = Release(ProcHolder(i))
  /\ UNCHANGED <<dbvars, req, clock, hook, call, cfg>>

\* Start's select with both ctx.Done() and ticker.C ready takes the tick:
\* poll runs once more and GetPending returns context.Canceled.
pollAfterSignal(i) ==
  /\ proc[i].cancelled
  /\ proc[i].pc = "idle"
  /\ ~proc[i].late
  /\ proc' = [proc EXCEPT ![i].late = TRUE]
  /\ UNCHANGED <<dbvars, locks, req, clock, hook, call, cfg>>

\* Start's select takes ctx.Done() and returns.
StartReturns(i) ==
  /\ proc[i].cancelled
  /\ proc[i].pc = "idle"
  /\ proc' = [proc EXCEPT ![i].pc = "stopped"]
  /\ UNCHANGED <<dbvars, locks, req, clock, hook, call, cfg>>

NextShutdown ==
  \/ Next
  \/ \E i \in Procs : \/ Shutdown(i)
                      \/ pollCancelled(i)
                      \/ pollAfterSignal(i)
                      \/ StartReturns(i)

\* The select in Start is taken again and again, and a statement on a
\* cancelled context returns.
FairStart ==
  \A i \in MainProcs :
     /\ WF_vars(poll(i) \/ processEvent(i) \/ handleCompleted(i)
                        \/ handleFailedLock(i) \/ handleFailed(i))
     /\ WF_vars(pollCancelled(i))
     /\ WF_vars(StartReturns(i))

SpecShutdown == InitRaceOne /\ [][NextShutdown]_vars /\ FairStart

\* One processor instance handling the payout workload while the provider's
\* /process endpoint answers 202, fails, times out or answers another status.
InitSubmit ==
  /\ InitDB
  /\ cfg = [slots |-> 1..MainRequests, procs |-> MainProcs, menu |-> PayoutMenu, distinct |-> TRUE,
            redeliver |-> FALSE, forged |-> FALSE,
            faults |-> FALSE, script |-> <<>>, provider |-> "flaky"]

SpecSubmit == InitSubmit /\ [][Next]_vars

\* Backlog workload: a payout across currencies, a second payout, and a
\* transfer that draws fx_pool[source] below the first payout's amount.
BacklogMenu ==
  << Request("alice", "k1", Body("external", "", "USD", "EUR", 6)),
     Request("alice", "k2", Body("external", "", "USD", "USD", 3)),
     Request("alice", "k3", Body("internal", "bob", "EUR", "USD", 7)) >>

\* The provider reports the first payout failed, once per batch place under
\* fresh event ids, and then the second payout completed.
BacklogScript ==
  [k \in 1..(BatchSize + 1) |->
     IF k <= BatchSize THEN [payment |-> 1, status |-> "failed"]
     ELSE [payment |-> 2, status |-> "completed"]]

InitBacklog ==
  /\ InitDB
  /\ cfg = [slots |-> 1..FinalityRequests, procs |-> MainProcs, menu |-> BacklogMenu,
            distinct |-> TRUE, redeliver |-> FALSE, forged |-> FALSE,
            faults |-> FALSE, script |-> BacklogScript, provider |-> "up"]

\* The ticker keeps firing and every started iteration runs on; requests
\* and the provider's reports keep arriving.
FairTicking ==
  /\ \A i \in MainProcs :
        WF_vars(poll(i) \/ processEvent(i) \/ handleCompleted(i)
                        \/ handleFailedLock(i) \/ handleFailed(i))
  /\ WF_vars(NextRequests)
  /\ WF_vars(ReceiveProviderWebhook)

SpecBacklog == InitBacklog /\ [][Next]_vars /\ FairTicking

\* A transaction that waits for a row lock is granted it once the row stays
\* free, and a goroutine holding every lock it needs runs on to commit or
\* rollback.
Progress ==
  /\ \A r \in 1..MainRequests : WF_vars(LockNext(r) \/ Execute(r))
  /\ \A i \in MainProcs : WF_vars(handleFailedLock(i) \/ handleFailed(i))

SpecLive == Init /\ [][Next]_vars /\ Progress

\* The ticker keeps firing and the processor goroutine keeps running: a
\* poll that has events to fetch is made, and a fetched event is processed.
Polling ==
  \A i \in MainProcs : /\ WF_vars(poll(i))
                       /\ WF_vars(processEvent(i))
                       /\ WF_vars(handleCompleted(i))

SpecPolling == Init /\ [][Next]_vars /\ Progress /\ Polling

SpecProcs == InitProcs /\ [][Next]_vars

SpecIntake == InitIntake /\ [][Next]_vars

SpecRace == InitRace /\ [][Next]_vars

SpecFinality == InitFinality /\ [][Next]_vars

SpecOverdraft == InitOverdraft /\ [][NextRequests]_vars

SpecSelf == InitSelf /\ [][NextRequests]_vars

SpecIdem == InitIdem /\ [][NextTimed]_vars

(***************************************************************************)
(* Payment lookup.                                                         *)
(***************************************************************************)
GetPaymentForUserAnyone(paymentID, userID) ==
  IF paymentID \notin 1..Len(payments) THEN [err |-> "NOT_FOUND", pid |-> None]
  ELSE [err |-> "", pid |-> paymentID]

\* Service.GetPaymentForUser: payments.GetByID, accounts.GetByID of the
\* source account, owner test.
GetPaymentForUser(paymentID, userID) ==
  IF paymentID \notin 1..Len(payments) THEN [err |-> "NOT_FOUND", pid |-> None]
  ELSE IF AccountInfo[payments[paymentID].source_account].user # userID
  THEN [err |-> "NOT_FOUND", pid |-> None]
  ELSE [err |-> "", pid |-> paymentID]

\* Payment ids a client may ask for: those that can exist and one more.
PaymentIds == 1..(MainRequests + 1)

\* PaymentHandler.Get: GET /api/v1/payments/{id} by an authenticated user.
Get ==
  /\ \E userID \in Users, paymentID \in PaymentIds :
        LET res == GetPaymentForUser(paymentID, userID)
        IN call' = [fn |-> "Get", user |-> userID, id |-> paymentID,
                    resp |-> IF res.err # "" THEN AppError(res.err)
                             ELSE Resp(200, "", res.pid, payments[res.pid].status)]
  /\ UNCHANGED <<dbvars, locks, req, proc, clock, hook, cfg>>

\* The mixed workload with clients reading payments at any time.
SpecReads == Init /\ [][Next \/ Get]_vars

(***************************************************************************)
(* Direct calls: repository and service functions applied to arguments     *)
(* drawn from small sets, outside any request.                             *)
(***************************************************************************)
CallAccounts == {GetByUserAndCurrency("alice", "USD", "user"),
                 GetByUserAndCurrency("bob", "USD", "user")}

CallBalances == {0 - 1, 0, UserSeedOther}

InitCalls ==
  /\ InitDB
  /\ cfg = [slots |-> {}, procs |-> {}, menu |-> <<>>, distinct |-> TRUE, redeliver |-> FALSE, forged |-> FALSE,
            faults |-> FALSE, script |-> <<>>, provider |-> "up"]

\* AccountRepository.UpdateBalance called with any balance and version.
UpdateBalanceCall ==
  /\ \E id \in CallAccounts, newBalance \in CallBalances, newVersion \in 0..MaxVersion :
        LET r == UpdateBalance(accounts, id, newBalance, newVersion)
        IN /\ accounts' = r.accts
           /\ call' = [fn |-> "UpdateBalance", id |-> id, newBalance |-> newBalance,
                       newVersion |-> newVersion, err |-> r.err]
  /\ UNCHANGED <<locks, payments, ledger, payment_events, webhook_events,
                 idempotency_cache, req, proc, clock, hook, cfg>>

NextCalls ==
  \/ UpdateBalanceCall

SpecCalls == InitCalls /\ [][NextCalls]_vars

\* Arguments of the validation and conversion functions; each run applies
\* one function once.
CallCurrencies == {"USD", "EUR", "GBP", "XYZ"}

AccountStatuses == {"active", "frozen", "closed"}

CallAmounts ==
  {0 - 1, 0, 1, TxLimitGBP, TxLimitGBP + 1, TxLimitEUR, TxLimitEUR + 1, TxLimitUSD, TxLimitUSD + 1}

\* Amounts to convert: non-positive, dust, small, and rounding ties.
TieAmounts == {500, 2500}
ConvertAmounts == {0 - 1} \cup 0..MaxSmallAmount \cup TieAmounts

CallAccount(user, currency, status) ==
  [user |-> user, currency |-> currency, account_type |-> "user", status |-> status]

validateTransferCall ==
  /\ call = NoCall
  /\ \E amount \in CallAmounts, src \in CallCurrencies, dst \in CallCurrencies,
        su \in Users, ru \in Users, ss \in AccountStatuses, rs \in AccountStatuses :
        LET body == Body("internal", ru, src, dst, amount)
        IN call' = [fn |-> "validateTransfer", body |-> body, sender |-> CallAccount(su, src, ss),
                    recipient |-> CallAccount(ru, dst, rs),
                    err |-> validateTransfer(body, CallAccount(su, src, ss), CallAccount(ru, dst, rs))]
  /\ UNCHANGED <<accounts, locks, payments, ledger, payment_events, webhook_events,
                 idempotency_cache, req, proc, clock, hook, cfg>>

validateExternalPayoutCall ==
  /\ call = NoCall
  /\ \E amount \in CallAmounts, src \in CallCurrencies, su \in Users, ss \in AccountStatuses :
        LET body == Body("external", "", src, src, amount)
        IN call' = [fn |-> "validateExternalPayout", body |-> body, sender |-> CallAccount(su, src, ss),
                    err |-> validateExternalPayout(body, CallAccount(su, src, ss))]
  /\ UNCHANGED <<accounts, locks, payments, ledger, payment_events, webhook_events,
                 idempotency_cache, req, proc, clock, hook, cfg>>

ConvertCall ==
  /\ call = NoCall
  /\ \E amount \in ConvertAmounts, from \in CallCurrencies, to \in CallCurrencies :
        call' = [fn |-> "Convert", amount |-> amount, from |-> from, to |-> to,
                 result |-> ConvertOrError(amount, from, to)]
  /\ UNCHANGED <<accounts, locks, payments, ledger, payment_events, webhook_events,
                 idempotency_cache, req, proc, clock, hook, cfg>>

NextValidate ==
  \/ validateTransferCall
  \/ validateExternalPayoutCall

SpecValidate == InitCalls /\ [][NextValidate]_vars

NextConvert ==
  \/ ConvertCall

SpecConvert == InitCalls /\ [][NextConvert]_vars


(***************************************************************************)
(* Properties.                                                             *)
(***************************************************************************)
RECURSIVE SumAmounts(_)
SumAmounts(entries) ==
  IF entries = <<>> THEN 0 ELSE Head(entries).amount + SumAmounts(Tail(entries))

Currencies == {"USD", "EUR"}

PaymentTotal(pid, currency, entry_type) ==
  SumAmounts(SelectSeq(ledger, LAMBDA e : /\ e.payment = pid
                                          /\ e.currency = currency
                                          /\ e.entry_type = entry_type))

AccountTotal(a, entry_type) ==
  SumAmounts(SelectSeq(ledger, LAMBDA e : e.account = a /\ e.entry_type = entry_type))

IsCross(p) == p.source_currency # p.dest_currency

\* C1: in every reachable state, whatever the interleaving of transfers,
\* payouts and webhook processing, the committed balance of every account
\* (user, fx_pool, outgoing) is at least zero.
C1_BalanceNonNegative == \A a \in AccountIds : accounts[a].balance >= 0

\* A wallet or system account has been drained to exactly zero by committed
\* work, and a payout has been reversed.
C1_Witness ==
  /\ \E a \in AccountIds : accounts[a].balance = 0 /\ accounts[a].version > 0
  /\ \E p \in 1..Len(payments) : payments[p].status = "failed"

\* C2: for every payment and every currency of its ledger entries the debit
\* amounts and the credit amounts have the same sum, also once the
\* compensating entries of a reversal are there.
C2_DoubleEntry ==
  \A pid \in 1..Len(payments) : \A c \in Currencies :
     PaymentTotal(pid, c, "debit") = PaymentTotal(pid, c, "credit")

\* A reversed cross-currency payout, its entries and their compensation in
\* the ledger (the converted amount differs from the amount sent), next to
\* a committed internal transfer.
C2_Witness ==
  /\ \E p \in 1..Len(payments) :
        /\ payments[p].type = "external_payout" /\ payments[p].status = "failed"
        /\ IsCross(payments[p])
        /\ PaymentTotal(p, payments[p].source_currency, "debit") = 2 * payments[p].source_amount
        /\ payments[p].dest_amount # payments[p].source_amount
  /\ \E p \in 1..Len(payments) : payments[p].type = "internal_transfer"

\* C3: after a committed transaction, the balance of every account equals
\* the credits minus the debits of its ledger entries.
C3_BalanceIsLedgerSum ==
  Len(payments) > 0 =>
     \A a \in AccountIds :
        accounts[a].balance = AccountTotal(a, "credit") - AccountTotal(a, "debit")


Succeeded(r) == req[r].resp.status \in {201, 202}

\* Requests whose transaction has ended (commit or rollback).
Answered == {r \in cfg.slots : req[r].pc \in {"cache", "done"}}

\* C4: N >= 2 debits of one wallet under distinct keys, each within the
\* balance and any two beyond it: exactly one commits, every other one is
\* answered INSUFFICIENT_FUNDS (no version conflict, no internal error), and
\* the wallet ends at the opening balance minus the one amount.
C4_ConcurrentOverdraft ==
  LET sender == GetByUserAndCurrency("alice", "USD", "user")
      won    == {r \in Answered : Succeeded(r)}
  IN /\ \A r \in Answered \ won : req[r].resp = AppError("INSUFFICIENT_FUNDS")
     /\ Cardinality(won) <= 1
     /\ Answered # {} => Cardinality(won) = 1
     /\ accounts[sender].balance =
           IF Len(payments) = 0 THEN UserSeedUSD ELSE UserSeedUSD - OverdraftAmount
     /\ Len(payments) <= 1

\* All debits were in flight together: one has committed, the others have
\* been refused, none has finished yet.
C4_Witness ==
  /\ \A r \in cfg.slots : req[r].pc = "cache"
  /\ \E r \in cfg.slots : Succeeded(r)
  /\ \E r \in cfg.slots : req[r].resp.code = "INSUFFICIENT_FUNDS"

Units == {ReqHolder(r) : r \in Slots} \cup {ProcHolder(i) : i \in Procs}

UnitIds(h) == IF h[1] = "req" THEN req[h[2]].ids ELSE proc[h[2]].ids

Acquiring(h) == IF h[1] = "req" THEN req[h[2]].pc = "lock" ELSE proc[h[2]].pc = "lock"

Held(h) == {a \in AccountIds : locks[a] = h}

Blocked(h) == Acquiring(h) /\ locks[Head(UnitIds(h))] \notin {NoHolder, h}

\* Every unit takes its rows in ascending id order: the rows it still has
\* to lock are ascending and above every row it holds; and no set of units
\* waits in a cycle.
LockOrder ==
  /\ \A h \in Units : Acquiring(h) =>
        /\ \A i, j \in 1..Len(UnitIds(h)) : i < j => UnitIds(h)[i] < UnitIds(h)[j]
        /\ \A a \in Held(h) : a < Head(UnitIds(h))
  /\ ~ \E D \in SUBSET Units \ {{}} :
          \A h \in D : Blocked(h) /\ locks[Head(UnitIds(h))] \in D

\* C5: units of work cannot deadlock on account row locks.  Every unit
\* (transfer, payout, reversal) takes its rows in the one total order of
\* the account ids, no set of units ever waits in a cycle, and every unit
\* that has begun taking its locks eventually reaches commit or rollback.
C5_NoDeadlock ==
  /\ []LockOrder
  /\ \A r \in 1..MainRequests : (req[r].pc = "lock") ~> (req[r].pc = "cache")
  /\ \A i \in MainProcs : (proc[i].pc = "lock") ~> (proc[i].pc # "lock")

\* A reversal and a transfer contend: one waits for a row the other holds
\* while that one is still taking its own locks.
C5_Witness ==
  \E h1, h2 \in Units :
     /\ h1[1] # h2[1]
     /\ Blocked(h1) /\ locks[Head(UnitIds(h1))] = h2
     /\ Acquiring(h2)

\* Change of account a's balance by payment p executed alone; a payout that
\* failed has been compensated in full.
SerialDelta(p, a) ==
  LET last == IF p.type = "external_payout"
              THEN getSystemAccount("outgoing", p.dest_currency) ELSE p.dest_account
      fxs  == getSystemAccount("fx_pool", p.source_currency)
      fxd  == getSystemAccount("fx_pool", p.dest_currency)
  IN IF p.status = "failed" THEN 0
     ELSE (IF a = p.source_account THEN 0 - p.source_amount ELSE 0)
        + (IF a = last THEN p.dest_amount ELSE 0)
        + (IF IsCross(p) /\ a = fxs THEN p.source_amount ELSE 0)
        + (IF IsCross(p) /\ a = fxd THEN 0 - p.dest_amount ELSE 0)

RECURSIVE SerialBalance(_, _)
SerialBalance(a, n) ==
  IF n = 0 THEN SeedBalance(a) ELSE SerialBalance(a, n - 1) + SerialDelta(payments[n], a)

\* C6: the balances of all accounts are those of executing the committed
\* transfers one at a time, in commit order, from the opening balances: no
\* update is lost.
C6_SerialBalances ==
  \A a \in AccountIds : accounts[a].balance = SerialBalance(a, Len(payments))

\* Two transfers over the same two wallets were in flight together and
\* both committed.
C6_Witness ==
  \E r1, r2 \in cfg.slots :
     /\ r1 # r2
     /\ req[r1].pc = "cache" /\ req[r2].pc = "cache"
     /\ Succeeded(r1) /\ Succeeded(r2)
     /\ {req[r1].sender, req[r1].dest} = {req[r2].sender, req[r2].dest}
     /\ accounts[req[r1].sender].version = 2


\* Request r arrives in this step (the middleware looks the key up).
Arrives(r) == req[r].pc = "idle" /\ req'[r].pc # "idle"

SameRequest(q, r) == q.user = r.user /\ q.key = r.key /\ q.body = r.body

\* C7: replay law.  Once a request with key k by user u has run the
\* operation and completed with a response, every later request with k by
\* u within the TTL and with the same method, path and body returns
\* exactly that response, marked replayed, and the wrapped operation is not
\* executed again.
C7_ReplayLaw ==
  [][\A r, q \in Slots :
       (/\ Arrives(r)
        /\ Done(q) /\ req[q].executed
        /\ SameRequest(req[q], req'[r]) /\ req[q].epoch = clock)
       => /\ req'[r].pc = "done"
          /\ req'[r].replayed
          /\ req'[r].resp = req[q].resp
          /\ UNCHANGED dbvars]_vars

\* C8: conflict law.  A request with the (key, user) of an unexpired cache
\* entry but another method, path or body is answered 409
\* IDEMPOTENCY_CONFLICT; the operation is not executed and no payment,
\* ledger, balance or cache row changes.
C8_ConflictLaw ==
  [][\A r, q \in Slots :
       (/\ Arrives(r)
        /\ CacheHit(req'[r].key, req'[r].user)
        /\ req[q].stored /\ req[q].user = req'[r].user /\ req[q].key = req'[r].key
        /\ req[q].body # req'[r].body)
       => /\ req'[r].pc = "done"
          /\ req'[r].resp = AppError("IDEMPOTENCY_CONFLICT")
          /\ ~req'[r].executed /\ ~req'[r].replayed
          /\ UNCHANGED dbvars]_vars

\* A request has been refused with the conflict answer, unexecuted.
C8_Witness ==
  \E r \in Slots :
     /\ Done(r) /\ req[r].resp = ErrorResp(409, "IDEMPOTENCY_CONFLICT")
     /\ ~req[r].executed
     /\ \E q \in Slots : req[q].stored /\ req[q].user = req[r].user
                         /\ req[q].key = req[r].key /\ req[q].body # req[r].body

\* C9: keys are scoped per user.  A valid, funded request is executed and
\* succeeds whether or not another user has already used its key: here,
\* every finished request that is the only one of its user under its key
\* has succeeded.
C9_KeysScopedPerUser ==
  \A r \in Slots :
     (/\ Done(r)
      /\ \A q \in Slots \ {r} : ~(req[q].user = req[r].user /\ req[q].key = req[r].key))
     => req[r].executed /\ Succeeded(r)

PaymentsOfKey(key) == {p \in 1..Len(payments) : payments[p].idempotency_key = key}

SenderDebits(pids, sender) ==
  SelectSeq(ledger, LAMBDA e : e.payment \in pids /\ e.account = sender
                               /\ e.entry_type = "debit")

\* C10: no key ever has two payment rows; and when several requests with
\* the same key, user and body have all missed the cache and run (nobody
\* else using the key), there is exactly one payment row for the key, the
\* sender has been debited exactly once, and every success answer names
\* that one payment.
C10_OnePaymentPerKey ==
  /\ \A c \in 1..Len(cfg.menu) : Cardinality(PaymentsOfKey(cfg.menu[c].key)) <= 1
  /\ \A c \in 1..Len(cfg.menu) :
       LET m      == cfg.menu[c]
           G      == {r \in Slots : req[r].choice = c /\ req[r].executed}
           sender == GetByUserAndCurrency(m.user, m.body.src, "user")
       IN (/\ Cardinality(G) >= 2
           /\ \A r \in G : Done(r)
           /\ \A r \in Slots : req[r].key = m.key => req[r].choice = c)
          => /\ Cardinality(PaymentsOfKey(m.key)) = 1
             /\ Len(SenderDebits(PaymentsOfKey(m.key), sender)) = 1
             /\ SenderDebits(PaymentsOfKey(m.key), sender)[1].amount = m.body.amount
             /\ \A r \in Slots : (req[r].choice = c /\ Done(r) /\ Succeeded(r))
                                    => req[r].resp.payment \in PaymentsOfKey(m.key)

\* Two requests with the same key, user and body both missed the cache and
\* ran; one created the payment, the other did not.
C10_Witness ==
  \E r1, r2 \in Slots :
     /\ r1 # r2 /\ req[r1].choice = req[r2].choice
     /\ Done(r1) /\ Done(r2) /\ req[r1].executed /\ req[r2].executed
     /\ req[r1].epoch = req[r2].epoch
     /\ Succeeded(r1) /\ ~Succeeded(r2)
     /\ \A r \in Slots : req[r].key = req[r1].key => req[r].choice = req[r1].choice

\* Sum of payment pid's entries of one type on account a, in ledger led.
EntryTotal(led, pid, a, entry_type) ==
  SumAmounts(SelectSeq(led, LAMBDA e : /\ e.payment = pid
                                       /\ e.account = a
                                       /\ e.entry_type = entry_type))

EntryCount(led, pid) == Len(SelectSeq(led, LAMBDA e : e.payment = pid))

OutgoingOf(p) == getSystemAccount("outgoing", p.dest_currency)
FxSourceOf(p) == getSystemAccount("fx_pool", p.source_currency)
FxDestOf(p) == getSystemAccount("fx_pool", p.dest_currency)

\* Change of account a's balance that undoes payout p.
ReversalDelta(p, a) ==
    (IF a = p.source_account THEN p.source_amount ELSE 0)
  + (IF a = OutgoingOf(p) THEN 0 - p.dest_amount ELSE 0)
  + (IF IsCross(p) /\ a = FxSourceOf(p) THEN 0 - p.source_amount ELSE 0)
  + (IF IsCross(p) /\ a = FxDestOf(p) THEN p.dest_amount ELSE 0)

\* C11: the step that fails a pending payout gives back what its creation
\* moved: the sender gets source_amount, outgoing[dest] loses dest_amount
\* and, across currencies, fx_pool[source] loses source_amount and
\* fx_pool[dest] gets dest_amount, no other balance moves; the payment is
\* failed with its reason recorded, and keeps its original entries next to
\* as many compensating ones (2 + 2, or 4 + 4), which cancel on every
\* account.
C11_ReversalLaw ==
  [][\A pid \in 1..Len(payments) :
        (payments[pid].status = "pending" /\ payments'[pid].status = "failed")
        => LET p == payments[pid]
           IN /\ \A a \in AccountIds :
                    accounts'[a].balance = accounts[a].balance + ReversalDelta(p, a)
              /\ payments'[pid].failure_reason # ""
              /\ EntryCount(ledger, pid) = (IF IsCross(p) THEN 4 ELSE 2)
              /\ EntryCount(ledger', pid) = (IF IsCross(p) THEN 8 ELSE 4)
              /\ SubSeq(ledger', 1, Len(ledger)) = ledger
              /\ \A a \in AccountIds :
                    EntryTotal(ledger', pid, a, "credit") = EntryTotal(ledger', pid, a, "debit")]_vars

\* A same-currency and a cross-currency payout have both been reversed.
C11_Witness ==
  \E p1, p2 \in 1..Len(payments) :
     /\ payments[p1].status = "failed" /\ ~IsCross(payments[p1])
     /\ payments[p2].status = "failed" /\ IsCross(payments[p2])
     /\ EntryCount(ledger, p1) = 4 /\ EntryCount(ledger, p2) = 8

TerminalStatuses == {"completed", "failed", "reversed"}

\* C12: when processEvent finds the event's payment completed, failed or
\* reversed it marks the event dispatched and goes on to the next event:
\* no ledger entry is written, no balance changes and the payment row
\* (status, provider_ref, failure_reason) stays as it is; so no later step
\* changes a terminal payment or adds an entry to it.
C12_TerminalSkipped ==
  [][/\ \A i \in Procs :
          (/\ proc[i].pc = "event"
           /\ proc'[i] # proc[i]
           /\ webhook_events[Head(proc[i].batch)].payment \in 1..Len(payments)
           /\ payments[webhook_events[Head(proc[i].batch)].payment].status \in TerminalStatuses)
          => /\ webhook_events'[Head(proc[i].batch)].status = "dispatched"
             /\ proc'[i].pc \in {"idle", "event"}
             /\ ledger' = ledger
             /\ accounts' = accounts
             /\ payments' = payments
     /\ \A pid \in 1..Len(payments) :
          payments[pid].status \in TerminalStatuses
          => /\ payments'[pid] = payments[pid]
             /\ EntryCount(ledger', pid) = EntryCount(ledger, pid)]_vars

\* A failure report for a payout that had already completed was marked
\* dispatched.
C12_Witness ==
  \E e \in 1..Len(webhook_events) :
     /\ webhook_events[e].status = "dispatched"
     /\ webhook_events[e].payload_status = "failed"
     /\ payments[webhook_events[e].payment].status = "completed"
     /\ payments[webhook_events[e].payment].failure_reason = ""
     /\ EntryCount(ledger, webhook_events[e].payment) \in {2, 4}

\* Events a processor instance holds: the rest of the batch its GetPending
\* returned, the event being processed first.
Claimed(i) == {proc[i].batch[k] : k \in 1..Len(proc[i].batch)}

\* C13: no pending webhook event is held by two processor instances at
\* once: an event that GetPending returned to one instance is not returned
\* to another before the first has finished with it.
C13_ClaimsDisjoint ==
  \A i, j \in Procs : i # j => Claimed(i) \cap Claimed(j) = {}

\* A failure report for payout pid is stored as event e and waits, the
\* payout is pending and no completion report for it is ahead of e.
FailureReported(e, pid) ==
  /\ e <= Len(webhook_events)
  /\ webhook_events[e].payment = pid
  /\ webhook_events[e].payload_status = "failed"
  /\ webhook_events[e].status = "pending"
  /\ payments[pid].status = "pending"
  /\ \A e2 \in 1..(e - 1) : ~(/\ webhook_events[e2].payment = pid
                               /\ webhook_events[e2].payload_status = "completed")

RowsOfEvent(events, eid) == {k \in 1..Len(events) : events[k].idempotency_key = eid}

\* C15: a POST whose event_id has no row stores one pending row under it
\* and is answered 200 received; a POST whose event_id has a row is
\* answered 200 already_received and leaves the table as it is; no event_id
\* ever has two rows.
C15_DuplicateDelivery ==
  [][hook' # hook =>
       /\ hook'.code = 200
       /\ IF RowsOfEvent(webhook_events, hook'.event_id) = {}
          THEN /\ hook'.status = "received"
               /\ Len(webhook_events') = Len(webhook_events) + 1
               /\ SubSeq(webhook_events', 1, Len(webhook_events)) = webhook_events
               /\ webhook_events'[Len(webhook_events')].idempotency_key = hook'.event_id
               /\ webhook_events'[Len(webhook_events')].status = "pending"
          ELSE /\ hook'.status = "already_received"
               /\ webhook_events' = webhook_events
       /\ Cardinality(RowsOfEvent(webhook_events', hook'.event_id)) = 1]_vars

\* A report was delivered again after its event had been processed.
C15_Witness ==
  /\ hook.status = "already_received"
  /\ \E k \in 1..Len(webhook_events) :
        /\ RowsOfEvent(webhook_events, hook.event_id) = {k}
        /\ webhook_events[k].status = "dispatched"

Committed(r) ==
  /\ req[r].pc = "lock" /\ req'[r].pc = "cache"
  /\ req'[r].resp.code = ""
  /\ Len(payments') = Len(payments) + 1

\* The ledger rows appended in this step, as legs.
AppendedLegs ==
  [k \in 1..(Len(ledger') - Len(ledger)) |->
     Leg(ledger'[Len(ledger) + k].account, ledger'[Len(ledger) + k].entry_type,
         ledger'[Len(ledger) + k].amount, ledger'[Len(ledger) + k].currency)]

\* The legs of a movement of amount from sender to last, through the fx
\* pools when the currencies differ.
MovementLegs(b, sender, last) ==
  LET dest == Convert(b.amount, b.src, b.dst).DestAmount
  IN IF b.src = b.dst
     THEN << Leg(sender, "debit", b.amount, b.src), Leg(last, "credit", dest, b.dst) >>
     ELSE << Leg(sender, "debit", b.amount, b.src),
             Leg(getSystemAccount("fx_pool", b.src), "credit", b.amount, b.src),
             Leg(getSystemAccount("fx_pool", b.dst), "debit", dest, b.dst),
             Leg(last, "credit", dest, b.dst) >>

RECURSIVE LegsDelta(_, _)
LegsDelta(legs, a) ==
  IF legs = <<>> THEN 0
  ELSE (IF Head(legs).account # a THEN 0
        ELSE IF Head(legs).entry_type = "credit" THEN Head(legs).amount
        ELSE 0 - Head(legs).amount) + LegsDelta(Tail(legs), a)

\* C17: the step in which CreateExternalPayout succeeds appends one payment
\* with status pending and no completed_at, debits the sender by the source
\* amount and credits outgoing[dest_currency] by the dest amount (through
\* fx_pool[source] and fx_pool[dest] across currencies) and moves no other
\* balance, appends exactly the 2 or 4 ledger entries of that movement and
\* exactly one created payment event, all at once.
C17_ExternalPayoutEffect ==
  [][\A r \in Slots :
        (Committed(r) /\ req[r].body.kind = "external")
        => LET b      == req[r].body
               sender == GetByUserAndCurrency(req[r].user, b.src, "user")
               out    == getSystemAccount("outgoing", b.dst)
               pid    == Len(payments')
               p      == payments'[pid]
           IN /\ SubSeq(payments', 1, Len(payments)) = payments
              /\ p.type = "external_payout" /\ p.status = "pending" /\ ~p.completed_at
              /\ p.idempotency_key = req[r].key
              /\ p.source_account = sender /\ p.source_amount = b.amount
              /\ p.source_currency = b.src /\ p.dest_currency = b.dst
              /\ p.dest_amount = Convert(b.amount, b.src, b.dst).DestAmount
              /\ \A a \in AccountIds :
                    accounts'[a].balance
                      = accounts[a].balance + LegsDelta(MovementLegs(b, sender, out), a)
              /\ SubSeq(ledger', 1, Len(ledger)) = ledger
              /\ AppendedLegs = MovementLegs(b, sender, out)
              /\ Len(AppendedLegs) = (IF b.src = b.dst THEN 2 ELSE 4)
              /\ \A k \in (Len(ledger) + 1)..Len(ledger') : ledger'[k].payment = pid
              /\ payment_events' = Append(payment_events,
                                          PaymentEvent(pid, "created", "user:" \o req[r].user))
              /\ req'[r].resp = Resp(202, "", pid, "pending")]_vars

\* A same-currency and a cross-currency payout are both committed and
\* pending.
C17_Witness ==
  \E p1, p2 \in 1..Len(payments) :
     /\ payments[p1].type = "external_payout" /\ payments[p2].type = "external_payout"
     /\ payments[p1].status = "pending" /\ payments[p2].status = "pending"
     /\ ~IsCross(payments[p1]) /\ IsCross(payments[p2])
     /\ EntryCount(ledger, p1) = 2 /\ EntryCount(ledger, p2) = 4

\* C18: the step in which CreateInternalTransfer succeeds appends one
\* payment with status completed and completed_at set, debits the sender by
\* the amount and credits the recipient by the dest amount (the amount
\* itself within a currency, the converted amount across currencies, then
\* written as debit sender, credit fx_pool[source], debit fx_pool[dest],
\* credit recipient) and moves no other balance, with exactly those 2 or 4
\* ledger entries and one completed event; a cross-currency transfer that
\* finds fx_pool[dest] below the dest amount is answered INSUFFICIENT_FUNDS
\* and writes nothing.
C18_InternalTransferEffect ==
  [][\A r \in Slots :
        LET b         == req[r].body
            sender    == GetByUserAndCurrency(req[r].user, b.src, "user")
            recipient == GetByUserAndCurrency(GetByUniqueName(b.to), b.dst, "user")
            dest      == Convert(b.amount, b.src, b.dst).DestAmount
            pid       == Len(payments')
            p         == payments'[pid]
        IN /\ (Committed(r) /\ b.kind = "internal")
              => /\ SubSeq(payments', 1, Len(payments)) = payments
                 /\ p.type = "internal_transfer" /\ p.status = "completed" /\ p.completed_at
                 /\ p.idempotency_key = req[r].key
                 /\ p.source_account = sender /\ p.dest_account = recipient
                 /\ p.source_amount = b.amount /\ p.dest_amount = dest
                 /\ (b.src = b.dst => dest = b.amount)
                 /\ \A a \in AccountIds :
                       accounts'[a].balance
                         = accounts[a].balance + LegsDelta(MovementLegs(b, sender, recipient), a)
                 /\ SubSeq(ledger', 1, Len(ledger)) = ledger
                 /\ AppendedLegs = MovementLegs(b, sender, recipient)
                 /\ Len(AppendedLegs) = (IF b.src = b.dst THEN 2 ELSE 4)
                 /\ \A k \in (Len(ledger) + 1)..Len(ledger') : ledger'[k].payment = pid
                 /\ payment_events' = Append(payment_events,
                                             PaymentEvent(pid, "completed", "user:" \o req[r].user))
                 /\ req'[r].resp = Resp(201, "", pid, "completed")
           /\ (/\ req[r].pc = "lock" /\ req'[r].pc = "cache"
               /\ b.kind = "internal" /\ b.src # b.dst
               /\ accounts[getSystemAccount("fx_pool", b.dst)].balance < dest
               /\ ~(accounts[sender].balance < b.amount))
              => /\ req'[r].resp = ErrorResp(422, "INSUFFICIENT_FUNDS")
                 /\ UNCHANGED <<accounts, payments, ledger, payment_events>>]_vars

\* A cross-currency transfer is committed with its four entries, out of a
\* pool that a payout had filled.
C18_Witness ==
  \E p \in 1..Len(payments), r \in cfg.slots :
     /\ payments[p].type = "internal_transfer" /\ payments[p].status = "completed"
     /\ IsCross(payments[p])
     /\ EntryCount(ledger, p) = 4
     /\ req[r].pc = "cache" /\ req[r].resp = Resp(201, "", p, "completed")

\* A cross-currency transfer was turned down for want of funds in
\* fx_pool[dest] while the sender could pay.
C18_PoolShort ==
  \E r \in cfg.slots :
     /\ req[r].pc = "cache" /\ req[r].body.kind = "internal"
     /\ req[r].body.src # req[r].body.dst
     /\ req[r].resp.code = "INSUFFICIENT_FUNDS"
     /\ ~(accounts[GetByUserAndCurrency(req[r].user, req[r].body.src, "user")].balance
            < req[r].body.amount)

\* The fields checkExternalPayoutIdempotency compares.
SamePayout(p, body, senderAcct) ==
  /\ p.source_account = senderAcct
  /\ p.source_amount = body.amount
  /\ p.source_currency = body.src
  /\ p.dest_currency = body.dst
  /\ p.type = "external_payout"

\* C19: a CreateExternalPayout call that is answered while a payment with
\* its idempotency key exists, be it found by the check before the
\* transaction or inserted meanwhile by a concurrent request, returns that
\* payment when source account, amount, currencies and type match and
\* fails with DUPLICATE_PAYMENT when they differ; either way it writes no
\* payment, ledger entry or payment event and changes no balance.
C19_PayoutIdempotent ==
  [][\A r \in Slots :
        LET q          == req[r]
            senderAcct == GetByUserAndCurrency(q.user, q.body.src, "user")
            existing   == GetByIdempotencyKey(q.key)
        IN (/\ q.body.kind = "external"
            /\ q.pc \in {"handler", "lock"} /\ req'[r].pc = "cache"
            /\ HandlerValidate(q.body) = ""
            /\ senderAcct # None
            /\ existing # None)
           => /\ UNCHANGED <<accounts, payments, ledger, payment_events>>
              /\ IF SamePayout(payments[existing], q.body, senderAcct)
                 THEN req'[r].resp.code = "" /\ req'[r].resp.payment = existing
                 ELSE req'[r].resp.code = "DUPLICATE_PAYMENT"]_vars

\* C20: a CreateInternalTransfer that reaches its transaction while a
\* payment with its idempotency key exists, and that passes the funds
\* tests, fails with DUPLICATE_PAYMENT and leaves balances, versions,
\* ledger entries, payments and payment events as they were.
C20_DuplicateTransfer ==
  [][\A r \in Slots :
        LET b == req[r].body
        IN (/\ b.kind = "internal"
            /\ req[r].pc = "lock" /\ req'[r].pc = "cache"
            /\ GetByIdempotencyKey(req[r].key) # None
            /\ SufficientFunds(accounts[req[r].sender].balance, b.amount)
            /\ b.src # b.dst =>
                 FxPoolSufficient(accounts[getSystemAccount("fx_pool", b.dst)].balance,
                                  req[r].conv.DestAmount))
           => /\ req'[r].resp.code = "DUPLICATE_PAYMENT"
              /\ UNCHANGED <<accounts, payments, ledger, payment_events>>]_vars

\* C21: a unit of work that ends in an error commits nothing: a transfer
\* or payout creation answered with an error, and a reversal that leaves
\* its webhook event pending, leave every balance and version, the
\* payments, the ledger and the payment events as they were.
C21_ErrorRollsBack ==
  [][/\ \A r \in Slots :
          (req[r].pc = "lock" /\ req'[r].pc = "cache" /\ req'[r].resp.code # "")
          => UNCHANGED <<accounts, payments, ledger, payment_events>>
     /\ \A i \in Procs :
          (/\ proc[i].pc = "lock" /\ proc'[i].pc # "lock"
           /\ webhook_events'[Head(proc[i].batch)].status = "pending")
          => UNCHANGED <<accounts, payments, ledger, payment_events>>]_vars

\* A reversal was stopped after its first balance updates: the processor
\* has moved on to the second event of its batch, the failure report ahead
\* of it is still pending and so is its payout.
C21_Witness ==
  \E i \in cfg.procs :
     /\ proc[i].batch = <<2>>
     /\ webhook_events[1].status = "pending"
     /\ webhook_events[1].payload_status = "failed"
     /\ payments[webhook_events[1].payment].status = "pending"
     /\ accounts[FxSourceOf(payments[webhook_events[1].payment])].balance
          < payments[webhook_events[1].payment].source_amount

\* C22: an UpdateBalance call whose newVersion - 1 is the stored version
\* and that succeeds writes the balance and raises the version by exactly
\* one; a call whose newVersion - 1 is not the stored version returns
\* VERSION_CONFLICT; a call that fails changes no row.  Versions therefore
\* only grow, one successful update at a time, and no two successful
\* updates of an account start from the same version.
C22_VersionCas ==
  [][(call' # call /\ call'.fn = "UpdateBalance") =>
       LET id == call'.id
       IN /\ \A a \in AccountIds \ {id} : accounts'[a] = accounts[a]
          /\ IF call'.err = ""
             THEN /\ accounts[id].version = call'.newVersion - 1
                  /\ accounts'[id].version = accounts[id].version + 1
                  /\ accounts'[id].balance = call'.newBalance
             ELSE accounts' = accounts
          /\ accounts[id].version # call'.newVersion - 1 => call'.err = "VERSION_CONFLICT"]_vars

\* An update with a stale version was turned down on an account that two
\* earlier updates had moved to version 2.
C22_Witness ==
  /\ call.fn = "UpdateBalance"
  /\ call.err = "VERSION_CONFLICT"
  /\ accounts[call.id].version = 2
  /\ call.newVersion = 2

\* C23: a GET of a payment answers 200 with the payment exactly when the
\* payment exists and the requester owns its source account; to any other
\* requester it answers the very 404 that an id without a payment gets.
C23_OwnerOnly ==
  [][(call' # call /\ call'.fn = "Get") =>
       IF /\ call'.id \in 1..Len(payments)
          /\ AccountInfo[payments[call'.id].source_account].user = call'.user
       THEN call'.resp = Resp(200, "", call'.id, payments[call'.id].status)
       ELSE call'.resp = ErrorResp(404, "RESOURCE_NOT_FOUND")]_vars

\* bob asked for a payment of alice's and was told it is not there.
C23_Witness ==
  /\ call.fn = "Get"
  /\ call.id \in 1..Len(payments)
  /\ AccountInfo[payments[call.id].source_account].user # call.user
  /\ call.resp = ErrorResp(404, "RESOURCE_NOT_FOUND")

\* C24: a webhook POST whose X-Webhook-Signature is not the hex HMAC-SHA256
\* of the raw body under the configured secret is answered 401
\* INVALID_SIGNATURE, whether or not the body would parse, and stores
\* nothing; any intake request leaves accounts, payments, ledger entries and
\* payment events as they were and adds at most one pending webhook row.
C24_IntakeGuard ==
  [][(call'.fn = "ReceiveProviderWebhook" /\ <<call, hook>>' # <<call, hook>>) =>
       /\ (call'.sig # HmacHex(call'.body, WebhookSecret)) =>
            /\ hook' = HookResp(None, 401, "INVALID_SIGNATURE")
            /\ webhook_events' = webhook_events
       /\ UNCHANGED <<accounts, payments, ledger, payment_events>>
       /\ \/ webhook_events' = webhook_events
          \/ /\ Len(webhook_events') = Len(webhook_events) + 1
             /\ SubSeq(webhook_events', 1, Len(webhook_events)) = webhook_events
             /\ webhook_events'[Len(webhook_events')].status = "pending"]_vars

C24_Witness ==
  /\ call.fn = "ReceiveProviderWebhook"
  /\ ~call.body.parses
  /\ call.sig = HmacHex(call.body, OtherSecret)
  /\ hook = HookResp(None, 401, "INVALID_SIGNATURE")
  /\ Len(payments) > 0
  /\ webhook_events = <<>>

\* C25: an answered internal transfer of a positive amount between existing
\* active accounts is rejected with SELF_TRANSFER exactly when the sender
\* account and the recipient account belong to the same user and source and
\* destination currency are equal; a user's transfer to themselves across
\* currencies is never rejected as a self transfer and, once accepted, is a
\* completed cross-currency transfer with the four ledger entries debit
\* sender, credit fx_pool[source], debit fx_pool[dest], credit recipient.
C25_SelfTransfer ==
  \A r \in Slots :
     LET b         == req[r].body
         sender    == GetByUserAndCurrency(req[r].user, b.src, "user")
         recipient == GetByUserAndCurrency(GetByUniqueName(b.to), b.dst, "user")
         sameUser  == AccountInfo[sender].user = AccountInfo[recipient].user
         pid       == req[r].resp.payment
     IN (Done(r) /\ b.kind = "internal")
        => /\ (req[r].resp = ErrorResp(422, "SELF_TRANSFER_NOT_ALLOWED"))
                <=> (sameUser /\ b.src = b.dst)
           /\ (sameUser /\ b.src # b.dst)
                => /\ req[r].resp.code \in {"", "INSUFFICIENT_FUNDS"}
                   /\ Succeeded(r)
                        => /\ req[r].resp = Resp(201, "", pid, "completed")
                           /\ payments[pid].type = "internal_transfer"
                           /\ payments[pid].status = "completed"
                           /\ payments[pid].source_account = sender
                           /\ payments[pid].dest_account = recipient
                           /\ LET rows == SelectSeq(ledger, LAMBDA e : e.payment = pid)
                              IN /\ Len(rows) = 4
                                 /\ \A k \in 1..4 :
                                       Leg(rows[k].account, rows[k].entry_type,
                                           rows[k].amount, rows[k].currency)
                                         = MovementLegs(b, sender, recipient)[k]

\* A user's own USD to EUR conversion was accepted with four entries while
\* their USD to USD transfer to themselves was rejected.
C25_Witness ==
  \E r1, r2 \in cfg.slots :
     /\ Done(r1) /\ Done(r2)
     /\ req[r1].user = req[r1].body.to /\ req[r1].body.src # req[r1].body.dst
     /\ Succeeded(r1) /\ EntryCount(ledger, req[r1].resp.payment) = 4
     /\ req[r2].user = req[r2].body.to /\ req[r2].body.src = req[r2].body.dst
     /\ req[r2].resp = ErrorResp(422, "SELF_TRANSFER_NOT_ALLOWED")

\* The configured per-currency limits.
ConfiguredLimit(c) ==
  IF c = "USD" THEN TxLimitUSD
  ELSE IF c = "EUR" THEN TxLimitEUR
  ELSE IF c = "GBP" THEN TxLimitGBP
  ELSE 0

\* The call's request passes every rule other than the amount rules.
PassesOtherRules ==
  /\ call.sender.status = "active"
  /\ call.fn = "validateTransfer"
       => /\ call.recipient.status = "active"
          /\ ~(call.sender.user = call.recipient.user /\ call.body.src = call.body.dst)

\* C26: validateTransfer and validateExternalPayout reject every amount <= 0
\* with INVALID_AMOUNT; of the requests no other rule rejects, they reject
\* with LIMIT_EXCEEDED those whose amount is above the configured limit of
\* the source currency and accept the others, the amount equal to the limit
\* included; outside USD, EUR and GBP the limit is 0 and every positive
\* amount is rejected with LIMIT_EXCEEDED.
C26_AmountLimits ==
  (call.fn \in {"validateTransfer", "validateExternalPayout"}) =>
     /\ call.body.amount <= 0 => call.err = "INVALID_AMOUNT"
     /\ (call.body.amount > 0 /\ PassesOtherRules) =>
          /\ call.body.amount > ConfiguredLimit(call.body.src) => call.err = "LIMIT_EXCEEDED"
          /\ call.body.amount <= ConfiguredLimit(call.body.src) => call.err = ""
          /\ call.body.src \notin {"USD", "EUR", "GBP"} => call.err = "LIMIT_EXCEEDED"

\* A payout of exactly the EUR limit was accepted.
C26_Witness ==
  /\ call.fn = "validateExternalPayout"
  /\ call.body.src = "EUR" /\ call.body.amount = TxLimitEUR
  /\ call.err = ""

\* A transfer of one unit of an unsupported currency was refused for the limit.
C26_UnknownCurrency ==
  /\ call.fn = "validateTransfer"
  /\ call.body.src = "XYZ" /\ call.body.amount = 1
  /\ call.err = "LIMIT_EXCEEDED"

\* n is num / den rounded to the nearest integer, halves away from zero
\* (num >= 0, den > 0).
RoundsTo(n, num, den) == 2 * num - den < 2 * n * den /\ 2 * n * den <= 2 * num + den

\* amount x mid x (1 - spread) and amount x mid as reduced fractions
\* [num, den].
Fraction(num, den) == [num |-> num \div GCD(num, den), den |-> den \div GCD(num, den)]

EffectiveProduct(amount, from, to) ==
  LET f == Fraction(MidMilli(from, to) * (1000 - SpreadMilli), 1000000)
  IN [num |-> amount * f.num, den |-> f.den]

MidProduct(amount, from, to) ==
  LET f == Fraction(MidMilli(from, to), 1000)
  IN [num |-> amount * f.num, den |-> f.den]

\* C27: Convert fails with INVALID_AMOUNT for amount <= 0 and, for a
\* positive amount, with INVALID_CURRENCY when a currency is unsupported;
\* between supported currencies it returns dest = amount and fee = 0 when
\* from = to, and otherwise dest = max(round half away from zero of
\* amount x mid x (1 - spread), 1) and fee = max(round(amount x mid) - dest, 0),
\* so that dest >= 1 and fee >= 0.
C27_ConvertFormula ==
  (call.fn = "Convert") =>
     LET amount == call.amount
         from   == call.from
         to     == call.to
         dest   == call.result.conv.DestAmount
         fee    == call.result.conv.FeeAmount
         eff    == EffectiveProduct(amount, from, to)
         mid    == MidProduct(amount, from, to)
         known  == {from, to} \subseteq {"USD", "EUR", "GBP"}
     IN /\ amount <= 0 => call.result.err = "INVALID_AMOUNT"
        /\ (amount > 0 /\ ~known) => call.result.err = "INVALID_CURRENCY"
        /\ (amount > 0 /\ known /\ from = to)
             => call.result.err = "" /\ dest = amount /\ fee = 0
        /\ (amount > 0 /\ known /\ from # to)
             => /\ call.result.err = ""
                /\ dest >= 1 /\ fee >= 0
                /\ \/ RoundsTo(dest, eff.num, eff.den)
                   \/ dest = 1 /\ RoundsTo(0, eff.num, eff.den)
                /\ \/ fee > 0 /\ RoundsTo(fee + dest, mid.num, mid.den)
                   \/ fee = 0 /\ \E m \in 0..dest : RoundsTo(m, mid.num, mid.den)

\* 2500 USD convert to 2289 EUR, the tie 2288.5 rounded away from zero, at
\* a fee of 11.
C27_Witness ==
  /\ call.fn = "Convert"
  /\ call.amount = 2500 /\ call.from = "USD" /\ call.to = "EUR"
  /\ call.result = [err |-> "", conv |-> [DestAmount |-> 2289, FeeAmount |-> 11]]

\* Sum of the dest amounts of the external payouts into currency c whose
\* status is one of statuses.
PayoutTotal(c, statuses) ==
  SumAmounts(SelectSeq([k \in 1..Len(payments) |-> [amount |-> payments[k].dest_amount,
                                                    type |-> payments[k].type,
                                                    currency |-> payments[k].dest_currency,
                                                    status |-> payments[k].status]],
                       LAMBDA e : /\ e.type = "external_payout"
                                  /\ e.currency = c
                                  /\ e.status \in statuses))

OutgoingCurrencies == {AccountInfo[a].currency : a \in {x \in AccountIds : AccountInfo[x].account_type = "outgoing"}}

\* C28 as stated: the balance of the outgoing account of a currency is the
\* sum of the dest amounts of the pending external payouts in that currency.
C28_OutgoingIsPending ==
  \A c \in OutgoingCurrencies :
     accounts[getSystemAccount("outgoing", c)].balance = PayoutTotal(c, {"pending"})

\* The weaker statement that counts completed payouts too (completion moves
\* no balance): it holds while every payout is reversed at most once.
C28_OutgoingIsUnfailed ==
  \A c \in OutgoingCurrencies :
     accounts[getSystemAccount("outgoing", c)].balance = PayoutTotal(c, {"pending", "completed"})

\* A completed payout's amount is still in the outgoing account while no
\* payout in that currency is pending.
C28_Witness ==
  \E p \in 1..Len(payments) :
     /\ payments[p].type = "external_payout" /\ payments[p].status = "completed"
     /\ PayoutTotal(payments[p].dest_currency, {"pending"}) = 0
     /\ accounts[OutgoingOf(payments[p])].balance = payments[p].dest_amount

\* Number of ledger entries a payment is created with.
OriginalEntries(p) == IF IsCross(p) THEN 4 ELSE 2

\* Ledger entries of payment pid beyond those it was created with.
CompensatingCount(pid) == EntryCount(ledger, pid) - OriginalEntries(payments[pid])

\* C29: whatever the interleaving of processor instances, every external
\* payout has at most one set of compensating ledger entries, and has
\* compensating entries only while its status is failed.
C29_ReversedOnce ==
  \A pid \in 1..Len(payments) :
     /\ CompensatingCount(pid) \in {0, OriginalEntries(payments[pid])}
     /\ CompensatingCount(pid) > 0 => payments[pid].status = "failed"

CurrencyTotal(accts, c) ==
  SumAmounts([a \in AccountIds |->
                [amount |-> IF AccountInfo[a].currency = c THEN accts[a].balance ELSE 0]])

SeedAccounts == [a \in AccountIds |-> [balance |-> SeedBalance(a), version |-> 0]]

\* C31: in every reachable state and for each currency, the balances of all
\* accounts in that currency (user, fx_pool, outgoing) add up to what they
\* added up to at the start: transfers, payout creation, completion and
\* reversal move money between accounts of a currency and never create or
\* destroy any.
C31_MoneyConserved ==
  \A c \in Currencies : CurrencyTotal(accounts, c) = CurrencyTotal(SeedAccounts, c)

\* A cross-currency payout has been reversed and a transfer has committed,
\* with balances away from their opening values.
C31_Witness ==
  /\ \E p \in 1..Len(payments) :
        /\ payments[p].type = "external_payout" /\ payments[p].status = "failed"
        /\ IsCross(payments[p])
  /\ \E p \in 1..Len(payments) : payments[p].type = "internal_transfer"
  /\ accounts # SeedAccounts

\* C32: every ledger entry carries its own arithmetic: balance_after is
\* balance_before plus the amount for a credit and minus the amount for a
\* debit, the amount is positive and balance_after is not negative.
C32_EntryArithmetic ==
  \A k \in 1..Len(ledger) :
     LET e == ledger[k] IN
       /\ e.amount > 0
       /\ e.balance_after >= 0
       /\ e.entry_type \in {"debit", "credit"}
       /\ e.balance_after =
            IF e.entry_type = "credit" THEN e.balance_before + e.amount
            ELSE e.balance_before - e.amount

\* The ledger holds entries of a transfer and of a reversed payout, debits
\* and credits among them, one of which emptied an account.
C32_Witness ==
  /\ \E p \in 1..Len(payments) :
        payments[p].type = "external_payout" /\ payments[p].status = "failed"
  /\ \E p \in 1..Len(payments) : payments[p].type = "internal_transfer"
  /\ \E k \in 1..Len(ledger) : ledger[k].entry_type = "debit" /\ ledger[k].balance_after = 0
  /\ \E k \in 1..Len(ledger) : ledger[k].entry_type = "credit"

\* The balance an account's chain has reached before ledger row k: the
\* balance_after of the account's latest row before k, or the opening balance.
ChainBalance(a, k) ==
  LET earlier == {j \in 1..(k - 1) : ledger[j].account = a}
  IN IF earlier = {} THEN SeedBalance(a) ELSE ledger[Largest(earlier)].balance_after

\* C33: per account the committed ledger entries form an unbroken chain in
\* commit order: each entry's balance_before is the balance_after of the
\* account's previous entry (the opening balance for the first) and the last
\* balance_after is the account's current balance.
C33_BalanceChain ==
  /\ \A k \in 1..Len(ledger) :
        ledger[k].balance_before = ChainBalance(ledger[k].account, k)
  /\ \A a \in AccountIds : accounts[a].balance = ChainBalance(a, Len(ledger) + 1)

\* An account has three entries or more (a payout, its reversal and another
\* payment) and another account none.
C33_Witness ==
  /\ \E a \in AccountIds : Cardinality({k \in 1..Len(ledger) : ledger[k].account = a}) >= 3
  /\ \E a \in AccountIds : \A k \in 1..Len(ledger) : ledger[k].account # a
  /\ \E p \in 1..Len(payments) : payments[p].status = "failed"

\* Processor instance i ends a handleFailed run with an error in this step:
\* it leaves the handler and the transaction has written nothing.
HandlerFails(i) ==
  /\ proc[i].pc = "lock" /\ proc'[i].pc # "lock"
  /\ ledger' = ledger /\ payments' = payments

\* C34: a processEvent run that fails inside its handler leaves the webhook
\* event pending and adds one to its attempts counter.
C34_FailureCountsAttempt ==
  [][\A i \in Procs :
        HandlerFails(i)
        => LET e == Head(proc[i].batch)
           IN /\ webhook_events'[e].status = "pending"
              /\ webhook_events'[e].attempts = webhook_events[e].attempts + 1]_vars

\* What the code does instead (auxiliary): the event stays pending and the
\* row is not written at all.
C34_FailureLeavesRowUntouched ==
  [][\A i \in Procs : HandlerFails(i) => webhook_events' = webhook_events]_vars

\* C35: the processor marks an event failed only for poison input: of the
\* inputs the intake lets through, a payment that does not exist. A storage
\* error, also one while loading the payment, leaves the event pending.
C35_FailedOnlyForPoison ==
  [][\A e \in 1..Len(webhook_events) :
        (webhook_events[e].status = "pending" /\ webhook_events'[e].status = "failed")
        => webhook_events[e].payment \notin 1..Len(payments)]_vars

\* An event naming a pending payment that exists has been marked failed.
C35_FailedForLivePayment ==
  \E e \in 1..Len(webhook_events) :
     /\ webhook_events[e].status = "failed"
     /\ webhook_events[e].payment \in 1..Len(payments)
     /\ payments[webhook_events[e].payment].status = "pending"

\* Requests r1 and r2 carried the same (Idempotency-Key, user, body), both
\* missed the cache in the same TTL period and both have been answered.
RacedPastCache(r1, r2) ==
  /\ r1 # r2
  /\ req[r1].pc = "done" /\ req[r2].pc = "done"
  /\ req[r1].executed /\ req[r2].executed
  /\ req[r1].key = req[r2].key /\ req[r1].user = req[r2].user
  /\ req[r1].body = req[r2].body
  /\ req[r1].epoch = req[r2].epoch

\* C36: after two requests with the same key, user and body raced past the
\* cache, there is exactly one cache row for the key and it holds the
\* success response of the request that created the payment, never the
\* error response of the request that lost the race.
C36_RaceConverges ==
  \A r1, r2 \in cfg.slots :
     (RacedPastCache(r1, r2) /\ Succeeded(r1))
     => LET rows == {e \in idempotency_cache : e.key = req[r1].key /\ e.user = req[r1].user}
        IN /\ Cardinality(rows) = 1
           /\ \A e \in rows : e.response = req[r1].resp

C37_BacklogState ==
  /\ Len(webhook_events) = BatchSize + 1
  /\ \A e \in 1..BatchSize : webhook_events[e].status = "pending"
  /\ webhook_events[BatchSize + 1].payload_status = "completed"
  /\ webhook_events[BatchSize + 1].status = "pending"
  /\ \E i \in MainProcs : proc[i].pc = "idle"

\* Processor instance i, signalled to stop, takes a step of the iteration it
\* was in, and the event in flight is handled as it would have been without
\* the signal: the event is settled, or its handler is entered or goes on.
InFlightRunsOn(i) ==
  LET e == Head(proc[i].batch)
  IN \/ webhook_events'[e].status # "pending"
     \/ proc[i].pc = "event" /\ proc'[i].pc \in {"complete", "lock"}
     \/ proc[i].pc = "lock" /\ proc'[i].pc = "lock" /\ proc'[i].ids = Tail(proc[i].ids)
     \/ /\ proc[i].pc = "lock" /\ Tail(proc[i].ids) = <<>>
        /\ ApplyUpdates(accounts, ReversalEntries(payments[proc[i].payment]),
                        [proc[i].locked EXCEPT ![Head(proc[i].ids)] =
                                                 accounts[Head(proc[i].ids)]]).err # ""

\* C38: on shutdown the iteration in progress is allowed to finish (its
\* event in flight is processed to commit or failure, not aborted by the
\* signal), no new poll iteration starts after the signal, and Start
\* eventually returns.
C38_GracefulShutdown ==
  /\ [][\A i \in Procs :
          /\ (/\ proc[i].cancelled
              /\ proc[i].pc \in {"event", "complete", "lock"}
              /\ proc'[i] # proc[i])
             => InFlightRunsOn(i)
          /\ ~proc'[i].late]_vars
  /\ \A i \in MainProcs : proc[i].cancelled ~> (proc[i].pc = "stopped")

\* What the code does keep (auxiliary): a signalled Start returns.
C38_StartReturns ==
  \A i \in MainProcs : proc[i].cancelled ~> (proc[i].pc = "stopped")

\* The signal arrived while handleCompleted was about to run for a pending
\* payout, and Start has returned with the payout still pending.
C38_AbortedState ==
  \E i \in MainProcs : \E e \in 1..Len(webhook_events) :
     /\ proc[i].pc = "stopped"
     /\ webhook_events[e].status = "pending" /\ webhook_events[e].payload_status = "completed"
     /\ payments[webhook_events[e].payment].status = "pending"

\* C39: a payout is submitted to the provider only once its creating
\* transaction has committed, so every payout submitted and every payout a
\* webhook names is a committed payment; and a failed submission (error,
\* timeout, status other than 202) is only logged: the request is answered
\* 202 with the payment, which stays pending with the sender's debit and the
\* outgoing credit in place.
C39_SubmitAfterCommit ==
  /\ \A r \in Slots :
        req[r].submit # "none"
        => /\ req[r].resp.payment \in 1..Len(payments)
           /\ payments[req[r].resp.payment].type = "external_payout"
           /\ payments[req[r].resp.payment].idempotency_key = req[r].key
  /\ \A e \in 1..Len(webhook_events) : webhook_events[e].payment \in 1..Len(payments)
  /\ \A r \in Slots :
        req[r].submit = "failed"
        => LET pid == req[r].resp.payment
           IN /\ req[r].resp = Resp(202, "", pid, "pending")
              /\ payments[pid].status = "pending"
              /\ EntryCount(ledger, pid) = OriginalEntries(payments[pid])
              /\ \E k \in 1..Len(ledger) :
                    /\ ledger[k].payment = pid /\ ledger[k].entry_type = "debit"
                    /\ ledger[k].account = payments[pid].source_account
                    /\ ledger[k].amount = payments[pid].source_amount
              /\ \E k \in 1..Len(ledger) :
                    /\ ledger[k].payment = pid /\ ledger[k].entry_type = "credit"
                    /\ ledger[k].account = getSystemAccount("outgoing", payments[pid].dest_currency)
                    /\ ledger[k].amount = payments[pid].dest_amount
              /\ accounts[getSystemAccount("outgoing", payments[pid].dest_currency)].balance
                   >= payments[pid].dest_amount

\* One payout's submission failed and it was answered 202 and is pending,
\* while another payout, accepted by the provider, has been completed by a
\* webhook.
C39_Witness ==
  \E r1, r2 \in cfg.slots :
     /\ req[r1].submit = "failed" /\ req[r1].pc = "done" /\ req[r1].resp.status = 202
     /\ req[r2].submit = "accepted"
     /\ payments[req[r2].resp.payment].status = "completed"

\* The transactions that commit or roll back in this step, as lock holders
\* with the last row they lock.
Movers ==
  {[holder |-> ReqHolder(r), last |-> Head(req[r].ids)] :
     r \in {x \in Slots : req[x].pc = "lock" /\ req'[x].pc = "cache"}}
  \cup {[holder |-> ProcHolder(i), last |-> Head(proc[i].ids)] :
          i \in {x \in Procs : /\ proc[x].pc = "lock" /\ Tail(proc[x].ids) = <<>>
                               /\ proc'[x] # proc[x]}}

\* C40: every balance update is made by a transaction that holds the
\* account's row lock (taken by FOR UPDATE before the update) and raises the
\* version by one, and the version test of UpdateBalance never fails: no
\* transfer, payout creation or reversal ends in VERSION_CONFLICT.
C40_NoVersionConflict ==
  [][/\ \A a \in AccountIds :
           accounts'[a] # accounts[a]
           => /\ accounts'[a].version = accounts[a].version + 1
              /\ \E m \in Movers :
                    \/ locks[a] = m.holder
                    \/ locks[a] = NoHolder /\ a = m.last
     /\ \A r \in Slots : req'[r].resp.code # "VERSION_CONFLICT"
     /\ \A i \in Procs :
           (/\ proc[i].pc = "lock" /\ Tail(proc[i].ids) = <<>>
            /\ GetForUpdateReady(Head(proc[i].ids), ProcHolder(i)))
           => ApplyUpdates(accounts, ReversalEntries(payments[proc[i].payment]),
                           [proc[i].locked EXCEPT ![Head(proc[i].ids)] =
                                                    accounts[Head(proc[i].ids)]]).err
                # "VERSION_CONFLICT"]_vars

\* An account has been updated by three transactions, one of them a
\* reversal, while a request waits for a row lock.
C40_Witness ==
  /\ \E a \in AccountIds : accounts[a].version >= 3
  /\ \E p \in 1..Len(payments) : payments[p].status = "failed"
  /\ \E a \in AccountIds : locks[a] # NoHolder

====
